---- MODULE Spec2Model ----
(***************************************************************************)
(* Multiple Reader Ring Buffer (MRRB v0.2), Middlewares/Third_Party/MRRB.  *)
(*                                                                         *)
(* Pointers into the byte buffer are modelled as offsets 0..buffer_length-1*)
(* from mrrb->buffer.  Every critical section of mrrb.c is one action that *)
(* takes the lock and runs the section's body, followed by a separate      *)
(* unlock action; everything the code does after unlocking (abort          *)
(* callbacks, memcpy, notify callbacks) is a separate step that other      *)
(* threads interleave with.                                                *)
(*                                                                         *)
(* The bytes are tagged with their position in the accepted byte stream    *)
(* (1, 2, 3, ... in reservation order); tag 0 is a byte that was never     *)
(* written.                                                                *)
(***************************************************************************)
EXTENDS Integers, FiniteSets, Sequences, TLC

\* ------------------------------------------------------------------ bounds
buffer_length == 3    \* bytes of the ring buffer handed to mrrb_init
MaxReaders    == 2    \* largest num_readers handed to mrrb_init
MaxDataLength == 4    \* largest data_length handed to mrrb_write
MaxOngoing    == 2    \* ongoing_writes up to which a port call fails after the reservation
MaxStream     == 5    \* writes stop once this many bytes were accepted
NumWriters    == 2    \* threads that call mrrb_write
CoopBufferLength == 4 \* bytes of the ring buffer of the polling writers
MaxCoopStream    == 7 \* the polling writers stop once this many bytes were asked for
Writers == 1..NumWriters

\* mrrb_reader_status_t and mrrb_reader_overrun_policy_t
DISABLED  == "DISABLED"
IDLE      == "IDLE"
ACTIVE    == "ACTIVE"
ABORTING  == "ABORTING"
ABORTED   == "ABORTED"
DISABLING == "DISABLING"
BLOCKING  == "BLOCKING"
DISABLE   == "DISABLE"
SKIP      == "SKIP"
Policies  == {BLOCKING, DISABLE, SKIP}

VARIABLES
  num_readers,      \* mrrb->num_readers
  overrun_policy,   \* readers[i].overrun_policy
  abort_data,       \* readers[i].abort_data != NULL
  readers,          \* readers[i]: status, read_ptr, read_complete_ptr, is_full
  write_ptr,        \* mrrb->write_ptr
  reservation_ptr,  \* mrrb->reservation_ptr
  ongoing_writes,   \* mrrb->ongoing_writes
  buffer,           \* mrrb->buffer: stream position stored in every cell
  mutex,            \* 0: free, otherwise the thread that holds the lock
  wr,               \* the threads inside mrrb_write and their locals
  cl,               \* per reader, the thread calling the reader-side API
  notified,         \* reader i has an unanswered notify_data callback
  aborted,          \* reader i has an unanswered abort_data callback
  accepted,         \* bytes accepted (reserved) so far by all mrrb_write calls
  published,        \* bytes of the accepted stream published so far
  got,              \* stream position of the last byte passed to reader i
  intact,           \* every slice passed to reader i continued the stream
  stayed,           \* reader i was never disabled
  enabled_at        \* bytes accepted when reader i was last enabled again

vars == <<num_readers, overrun_policy, abort_data, readers, write_ptr,
          reservation_ptr, ongoing_writes, buffer, mutex, wr, cl,
          notified, aborted, accepted, published, got, intact, stayed, enabled_at>>

\* mrrb->buffer_length: the number of cells of the buffer mrrb_init was given.
Offsets == DOMAIN buffer
N       == Cardinality(Offsets)

RIdx == 1..num_readers

\* Thread identities for the lock: writers 1..NumWriters, then one per reader.
ClientId(i) == NumWriters + i

Min(a, b) == IF a <= b THEN a ELSE b
SetMin(S) == CHOOSE x \in S : \A y \in S : x <= y

\* ------------------------------------------------------- private functions
IsDisabled(reader) == reader.status \in {DISABLED, DISABLING}

_mrrb_advance_pointer(ptr, len) ==
  IF ptr < N - len THEN ptr + len ELSE ptr - (N - len)

_mrrb_reader_get_continuous_readable_space(wp, reader) ==
  IF reader.read_complete_ptr > wp \/ reader.is_full
    THEN N - reader.read_complete_ptr
    ELSE wp - reader.read_complete_ptr

\* Variant: the reader's status is not looked at.
_mrrb_reader_get_remaining_space_enabled(res, reader) ==
  IF reader.is_full THEN 0
  ELSE IF reader.read_complete_ptr > res
    THEN reader.read_complete_ptr - res
    ELSE N - (res - reader.read_complete_ptr)

_mrrb_reader_get_remaining_space(res, reader) ==
  IF IsDisabled(reader) THEN N
  ELSE IF reader.is_full THEN 0
  ELSE IF reader.read_complete_ptr > res
    THEN reader.read_complete_ptr - res
    ELSE N - (res - reader.read_complete_ptr)

\* Variant: a BLOCKING reader counts as overwritable too.
_mrrb_reader_get_overwritable_space_any(res, reader, policy) == N

_mrrb_reader_get_overwritable_space(res, reader, policy) ==
  IF policy = BLOCKING
    THEN _mrrb_reader_get_remaining_space(res, reader)
    ELSE N

mrrb_get_remaining_space(res, rds) ==
  SetMin({N} \cup {_mrrb_reader_get_remaining_space(res, rds[i]) : i \in RIdx})

mrrb_get_overwritable_space(res, rds) ==
  SetMin({N} \cup {_mrrb_reader_get_overwritable_space(res, rds[i], overrun_policy[i])
                     : i \in RIdx})

mrrb_is_full(rds) == \E i \in RIdx : rds[i].status = ACTIVE /\ rds[i].is_full

mrrb_is_empty(res, rds) == mrrb_get_remaining_space(res, rds) = N

\* One iteration of the loop of _mrrb_clear_overrun_space: the reader after
\* the iteration, its clear space (N when the iteration is skipped and so
\* takes no part in the minimum) and whether its abort flag was set.
\* Variant: read_complete_ptr is not moved up to read_ptr.
SkipAbortReader_kept(reader) ==
  IF reader.status = ACTIVE
    THEN [reader EXCEPT !.status = ABORTING, !.is_full = FALSE]
    ELSE reader

SkipAbortReader(reader) ==
  IF reader.status = ACTIVE
    THEN [reader EXCEPT !.status = ABORTING,
                        !.read_complete_ptr = reader.read_ptr,
                        !.is_full = FALSE]
    ELSE reader

SkipAdvanceReader(res, reader, requested_space) ==
  LET space == _mrrb_reader_get_remaining_space(res, reader) IN
  IF space < requested_space
    THEN [reader EXCEPT !.read_complete_ptr =
             _mrrb_advance_pointer(reader.read_complete_ptr, requested_space - space),
                        !.is_full = TRUE]
    ELSE [reader EXCEPT !.is_full = (space = requested_space)]

\* Variant: IDLE readers are cleared like the others.
ClearReader_idle(res, reader, policy, has_abort, requested_space) ==
  LET space == _mrrb_reader_get_remaining_space(res, reader) IN
  IF IsDisabled(reader)
    THEN [reader |-> reader, space |-> N, abort |-> FALSE]
  ELSE IF space >= requested_space \/ policy = BLOCKING
    THEN [reader |-> reader, space |-> space, abort |-> FALSE]
  ELSE IF policy = DISABLE
    THEN [reader |-> [reader EXCEPT !.status = IF has_abort THEN DISABLING ELSE DISABLED],
          space  |-> N,
          abort  |-> has_abort]
  ELSE LET a == SkipAbortReader(reader)
           s == _mrrb_reader_get_remaining_space(res, a)
       IN [reader |-> SkipAdvanceReader(res, a, requested_space),
           space  |-> IF s < requested_space THEN requested_space ELSE s,
           abort  |-> reader.status = ACTIVE]

\* Variant: a reader disabled by the DISABLE policy keeps its clear space.
ClearReader_space(res, reader, policy, has_abort, requested_space) ==
  LET space == _mrrb_reader_get_remaining_space(res, reader) IN
  IF IsDisabled(reader) \/ reader.status = IDLE
    THEN [reader |-> reader, space |-> N, abort |-> FALSE]
  ELSE IF space >= requested_space \/ policy = BLOCKING
    THEN [reader |-> reader, space |-> space, abort |-> FALSE]
  ELSE IF policy = DISABLE
    THEN [reader |-> [reader EXCEPT !.status = IF has_abort THEN DISABLING ELSE DISABLED],
          space  |-> space,
          abort  |-> has_abort]
  ELSE LET a == SkipAbortReader(reader)
           s == _mrrb_reader_get_remaining_space(res, a)
       IN [reader |-> SkipAdvanceReader(res, a, requested_space),
           space  |-> IF s < requested_space THEN requested_space ELSE s,
           abort  |-> reader.status = ACTIVE]

\* Variant: the DISABLE policy never schedules the abort callback.
ClearReader_silent(res, reader, policy, has_abort, requested_space) ==
  LET space == _mrrb_reader_get_remaining_space(res, reader) IN
  IF IsDisabled(reader) \/ reader.status = IDLE
    THEN [reader |-> reader, space |-> N, abort |-> FALSE]
  ELSE IF space >= requested_space \/ policy = BLOCKING
    THEN [reader |-> reader, space |-> space, abort |-> FALSE]
  ELSE IF policy = DISABLE
    THEN [reader |-> [reader EXCEPT !.status = DISABLED],
          space  |-> N,
          abort  |-> FALSE]
  ELSE LET a == SkipAbortReader(reader)
           s == _mrrb_reader_get_remaining_space(res, a)
       IN [reader |-> SkipAdvanceReader(res, a, requested_space),
           space  |-> IF s < requested_space THEN requested_space ELSE s,
           abort  |-> reader.status = ACTIVE]

ClearReader(res, reader, policy, has_abort, requested_space) ==
  LET space == _mrrb_reader_get_remaining_space(res, reader) IN
  IF IsDisabled(reader) \/ reader.status = IDLE
    THEN [reader |-> reader, space |-> N, abort |-> FALSE]
  ELSE IF space >= requested_space \/ policy = BLOCKING
    THEN [reader |-> reader, space |-> space, abort |-> FALSE]
  ELSE IF policy = DISABLE
    THEN [reader |-> [reader EXCEPT !.status = IF has_abort THEN DISABLING ELSE DISABLED],
          space  |-> N,
          abort  |-> has_abort]
  ELSE LET a == SkipAbortReader(reader)
           s == _mrrb_reader_get_remaining_space(res, a)
       IN [reader |-> SkipAdvanceReader(res, a, requested_space),
           space  |-> IF s < requested_space THEN requested_space ELSE s,
           abort  |-> reader.status = ACTIVE]

_mrrb_clear_overrun_space(res, rds, requested_space) ==
  LET c == [i \in RIdx |->
              ClearReader(res, rds[i], overrun_policy[i], abort_data[i], requested_space)]
  IN [readers     |-> [i \in RIdx |-> c[i].reader],
      clear_space |-> SetMin({N} \cup {c[i].space : i \in RIdx}),
      flags       |-> {i \in RIdx : c[i].abort}]


\* ------------------------------------------------------------ delivered data
\* The tags of the slice (ptr, len) as the callback reads it; a read beyond
\* the end of the buffer yields no stream byte (tag 0).
Slice(ptr, len) == [k \in 1..len |-> IF ptr + k - 1 < N THEN buffer[ptr + k - 1] ELSE 0]

Continues(i, ptr, len) == \A k \in 1..len : Slice(ptr, len)[k] = got[i] + k

\* reader->notify_data(mrrb, handle, ptr, len)
NotifyData(i, ptr, len) ==
  /\ notified' = [notified EXCEPT ![i] = TRUE]
  /\ got'      = [got EXCEPT ![i] = IF Continues(i, ptr, len) THEN @ + len ELSE @]
  /\ intact'   = [intact EXCEPT ![i] = @ /\ Continues(i, ptr, len)]

\* reader->abort_data(mrrb, handle)
AbortData(i) == aborted' = [aborted EXCEPT ![i] = TRUE]

StayedAfter(rds) == [i \in RIdx |-> stayed[i] /\ ~IsDisabled(rds[i])]

LowestFlag(flags) == SetMin(flags)

\* --------------------------------------------------------------- mrrb_init
WriterIdle ==
  [pc |-> "idle", data_length |-> 0, remaining_space |-> 0, overwritable_space |-> 0,
   write_length |-> 0, write_pointer |-> 0, first |-> 0, flags |-> {},
   abort_readers |-> FALSE]

ClientIdle == [pc |-> "idle", len |-> 0]

mrrb_reader_init(policy, has_abort) == policy = SKIP => has_abort

mrrb_init_buffer(n, length) ==
  /\ num_readers = n
  /\ overrun_policy \in [1..n -> Policies]
  /\ abort_data \in [1..n -> BOOLEAN]
  /\ \A i \in 1..n : mrrb_reader_init(overrun_policy[i], abort_data[i])
  /\ readers = [i \in 1..n |-> [status |-> IDLE, read_ptr |-> 0,
                                read_complete_ptr |-> 0, is_full |-> FALSE]]
  /\ write_ptr = 0
  /\ reservation_ptr = 0
  /\ ongoing_writes = 0
  /\ buffer = [c \in 0..(length - 1) |-> 0]
  /\ mutex = 0
  /\ wr = [w \in Writers |-> WriterIdle]
  /\ cl = [i \in 1..n |-> ClientIdle]
  /\ notified = [i \in 1..n |-> FALSE]
  /\ aborted = [i \in 1..n |-> FALSE]
  /\ accepted = 0
  /\ published = 0
  /\ got = [i \in 1..n |-> 0]
  /\ intact = [i \in 1..n |-> TRUE]
  /\ stayed = [i \in 1..n |-> TRUE]
  /\ enabled_at = [i \in 1..n |-> 0]

mrrb_init(n) == mrrb_init_buffer(n, buffer_length)

\* The reader arrays handed to mrrb_init: up to MaxReaders readers of any
\* policy.  The array is listed in policy order, and a BLOCKING reader has no
\* abort callback: only mrrb_reader_disable would call it.
PolicyRank(policy) == CASE policy = BLOCKING -> 0 [] policy = DISABLE -> 1 [] OTHER -> 2

Init ==
  \E n \in 1..MaxReaders :
    /\ mrrb_init(n)
    /\ \A i \in 1..n : overrun_policy[i] = BLOCKING => ~abort_data[i]
    /\ \A i \in 1..n : \A j \in i..n :
         PolicyRank(overrun_policy[i]) <= PolicyRank(overrun_policy[j])

\* -------------------------------------------------------------- mrrb_write
\* Phase A, mrrb.c 433-486: lock, measure, clear overrun readers, reserve.
WriteLength(res, rds, data_length) ==
  LET remaining_space == mrrb_get_remaining_space(res, rds)
      overwritable_space == mrrb_get_overwritable_space(res, rds)
      requested_space == Min(data_length, N)
      clr == _mrrb_clear_overrun_space(res, rds, requested_space)
  IN IF data_length <= remaining_space
       THEN [write_length |-> data_length, readers |-> rds, flags |-> {},
             abort_readers |-> FALSE]
     ELSE IF overwritable_space > remaining_space
       THEN [write_length |-> Min(data_length, clr.clear_space), readers |-> clr.readers,
             flags |-> clr.flags, abort_readers |-> TRUE]
     ELSE [write_length |-> remaining_space, readers |-> rds, flags |-> {},
           abort_readers |-> FALSE]

MoveReservation(res, write_length) ==
  IF write_length >= N - res THEN write_length - (N - res) ELSE res + write_length

\* Variant: the reservation leaves the full flags alone.
UpdateFull_none(res, rds) == rds

UpdateFull(res, rds) ==
  [i \in RIdx |-> IF IsDisabled(rds[i]) THEN rds[i]
                  ELSE [rds[i] EXCEPT !.is_full = (res = rds[i].read_complete_ptr)]]

\* mrrb.c 433-486 for a thread that is at position at when it calls
mrrb_write_reserve_from(w, data_length, at) ==
  LET a   == WriteLength(reservation_ptr, readers, data_length)
      res == MoveReservation(reservation_ptr, a.write_length)
  IN /\ wr[w].pc = at
     /\ mutex = 0
     /\ mutex' = w
     /\ reservation_ptr' = res
     /\ readers' = UpdateFull(res, a.readers)
     /\ ongoing_writes' = ongoing_writes + 1
     /\ accepted' = accepted + a.write_length
     /\ published' = published
     /\ stayed' = StayedAfter(a.readers)
     /\ enabled_at' = enabled_at
     /\ wr' = [wr EXCEPT ![w] =
                 [pc |-> "reserved", data_length |-> data_length,
                  remaining_space |-> mrrb_get_remaining_space(reservation_ptr, readers),
                  overwritable_space |-> mrrb_get_overwritable_space(reservation_ptr, readers),
                  write_length |-> a.write_length, write_pointer |-> reservation_ptr,
                  first |-> accepted + 1, flags |-> a.flags,
                  abort_readers |-> a.abort_readers]]
     /\ UNCHANGED <<num_readers, overrun_policy, abort_data, write_ptr, buffer, cl,
                    notified, aborted, got, intact>>

\* Of the idle writers the one with the lowest number calls next.
mrrb_write_reserve(w, data_length) ==
  /\ \A v \in Writers : v < w => wr[v].pc # "idle"
  /\ accepted + data_length <= MaxStream
  /\ mrrb_write_reserve_from(w, data_length, "idle")

AfterAborts(w) == IF w.write_length > 0 THEN "copy" ELSE "publish"

\* mrrb.c 488-491
mrrb_write_unlock_reserve(w) ==
  /\ wr[w].pc = "reserved"
  /\ mutex = w
  /\ mutex' = 0
  /\ wr' = [wr EXCEPT ![w].pc = IF wr[w].flags # {} THEN "abort" ELSE AfterAborts(wr[w]),
                      ![w].data_length = 0,
                      ![w].remaining_space = 0,
                      ![w].overwritable_space = 0,
                      ![w].abort_readers = FALSE]
  /\ UNCHANGED <<num_readers, overrun_policy, abort_data, readers, write_ptr,
                 reservation_ptr, ongoing_writes, buffer, cl, notified, aborted,
                 accepted, published, got, intact, stayed, enabled_at>>

\* mrrb.c 493-503: one iteration of the abort loop that finds a set flag
mrrb_write_abort(w) ==
  LET i == LowestFlag(wr[w].flags) IN
  /\ wr[w].pc = "abort"
  /\ AbortData(i)
  /\ wr' = [wr EXCEPT ![w].flags = @ \ {i},
                      ![w].pc = IF wr[w].flags = {i} THEN AfterAborts(wr[w]) ELSE "abort"]
  /\ UNCHANGED <<num_readers, overrun_policy, abort_data, readers, write_ptr,
                 reservation_ptr, ongoing_writes, buffer, mutex, cl, notified,
                 accepted, published, got, intact, stayed, enabled_at>>

\* Phase B, mrrb.c 505-511: the two memcpy calls
CopyData(buf, write_pointer, write_length, first) ==
  [c \in Offsets |->
     LET k == (c - write_pointer + N) % N IN
     IF k < write_length THEN first + k ELSE buf[c]]

mrrb_write_copy(w) ==
  /\ wr[w].pc = "copy"
  /\ buffer' = CopyData(buffer, wr[w].write_pointer, wr[w].write_length, wr[w].first)
  /\ wr' = [wr EXCEPT ![w].pc = "publish"]
  /\ UNCHANGED <<num_readers, overrun_policy, abort_data, readers, write_ptr,
                 reservation_ptr, ongoing_writes, mutex, cl, notified, aborted,
                 accepted, published, got, intact, stayed, enabled_at>>

\* Phase C, mrrb.c 513-540: lock, and publish when this is the last ongoing write
PublishReader(wp, reader) ==
  IF reader.status = IDLE
    THEN [reader EXCEPT !.status = ACTIVE, !.read_complete_ptr = wp]
  ELSE IF reader.status = ABORTED
    THEN [reader EXCEPT !.status = ACTIVE]
  ELSE reader

\* Variant: every reader that is not disabled is marked for notification.
PublishFlags_enabled(rds) == {i \in RIdx : ~IsDisabled(rds[i])}

PublishFlags(rds) == {i \in RIdx : rds[i].status \in {IDLE, ABORTED}}

\* Variant: every writer moves write_ptr, not only the last one of a batch.
mrrb_write_publish_each(w) ==
  /\ wr[w].pc = "publish"
  /\ mutex = 0
  /\ mutex' = w
  /\ ongoing_writes' = ongoing_writes - 1
  /\ readers' = [i \in RIdx |-> PublishReader(write_ptr, readers[i])]
  /\ write_ptr' = reservation_ptr
  /\ published' = accepted
  /\ wr' = [wr EXCEPT ![w].pc = "published", ![w].flags = PublishFlags(readers)]
  /\ UNCHANGED <<num_readers, overrun_policy, abort_data, reservation_ptr, buffer, cl,
                 notified, aborted, accepted, got, intact, stayed, enabled_at>>

mrrb_write_publish(w) ==
  /\ wr[w].pc = "publish"
  /\ mutex = 0
  /\ mutex' = w
  /\ ongoing_writes' = ongoing_writes - 1
  /\ IF ongoing_writes - 1 = 0
       THEN /\ readers' = [i \in RIdx |-> PublishReader(write_ptr, readers[i])]
            /\ write_ptr' = reservation_ptr
            /\ published' = accepted
            /\ wr' = [wr EXCEPT ![w].pc = "published", ![w].flags = PublishFlags(readers)]
       ELSE /\ wr' = [wr EXCEPT ![w].pc = "published"]
            /\ UNCHANGED <<readers, write_ptr, published>>
  /\ UNCHANGED <<num_readers, overrun_policy, abort_data, reservation_ptr, buffer, cl,
                 notified, aborted, accepted, got, intact, stayed, enabled_at>>

\* Variant: the notify loop is entered with the lock still held.
mrrb_write_unlock_publish_held(w) ==
  /\ wr[w].pc = "published"
  /\ mutex = w
  /\ mutex' = IF wr[w].flags # {} THEN w ELSE 0
  /\ wr' = [wr EXCEPT ![w] = IF wr[w].flags # {} THEN [@ EXCEPT !.pc = "notify"]
                             ELSE WriterIdle]
  /\ UNCHANGED <<num_readers, overrun_policy, abort_data, readers, write_ptr,
                 reservation_ptr, ongoing_writes, buffer, cl, notified, aborted,
                 accepted, published, got, intact, stayed, enabled_at>>

\* mrrb.c 543 / 560, and the return when no reader is to be notified
mrrb_write_unlock_publish(w) ==
  /\ wr[w].pc = "published"
  /\ mutex = w
  /\ mutex' = 0
  /\ wr' = [wr EXCEPT ![w] = IF wr[w].flags # {} THEN [@ EXCEPT !.pc = "notify"]
                             ELSE WriterIdle]
  /\ UNCHANGED <<num_readers, overrun_policy, abort_data, readers, write_ptr,
                 reservation_ptr, ongoing_writes, buffer, cl, notified, aborted,
                 accepted, published, got, intact, stayed, enabled_at>>

\* mrrb.c 545-558: one iteration of the notify loop that finds a set flag
mrrb_write_notify(w) ==
  LET i   == LowestFlag(wr[w].flags)
      len == _mrrb_reader_get_continuous_readable_space(write_ptr, readers[i])
      ptr == readers[i].read_complete_ptr
  IN /\ wr[w].pc = "notify"
     /\ readers' = [readers EXCEPT ![i].read_ptr = _mrrb_advance_pointer(ptr, len)]
     /\ NotifyData(i, ptr, len)
     /\ wr' = [wr EXCEPT ![w] = IF wr[w].flags = {i} THEN WriterIdle
                                ELSE [@ EXCEPT !.flags = @ \ {i}]]
     /\ UNCHANGED <<num_readers, overrun_policy, abort_data, write_ptr, reservation_ptr,
                    ongoing_writes, buffer, mutex, cl, aborted, accepted, published, stayed, enabled_at>>

mrrb_write(w) ==
  \/ \E data_length \in 1..MaxDataLength : mrrb_write_reserve(w, data_length)
  \/ mrrb_write_unlock_reserve(w)
  \/ mrrb_write_abort(w)
  \/ mrrb_write_copy(w)
  \/ mrrb_write_publish(w)
  \/ mrrb_write_unlock_publish(w)
  \/ mrrb_write_notify(w)


\* ------------------------------------------------------ mrrb_read_complete
\* mrrb.c 591-615: lock and complete the slice the reader was shown
\* Variant: a completed reader goes IDLE without looking for more data.
ReadComplete_once(wp, reader) ==
  IF reader.status # ACTIVE
    THEN [reader |-> reader, len |-> 0]
    ELSE [reader |-> [reader EXCEPT !.is_full = FALSE,
                                    !.read_complete_ptr = reader.read_ptr,
                                    !.status = IDLE],
          len |-> 0]

\* Variant: the reader's status is not looked at.
ReadComplete_always(wp, reader) ==
  LET done == [reader EXCEPT !.is_full = FALSE, !.read_complete_ptr = reader.read_ptr]
      readable_data_length == _mrrb_reader_get_continuous_readable_space(wp, done)
  IN IF readable_data_length > 0
       THEN [reader |-> [done EXCEPT !.read_ptr =
                           _mrrb_advance_pointer(done.read_complete_ptr, readable_data_length)],
             len |-> readable_data_length]
     ELSE [reader |-> [done EXCEPT !.status = IDLE], len |-> 0]

ReadComplete(wp, reader) ==
  LET done == [reader EXCEPT !.is_full = FALSE, !.read_complete_ptr = reader.read_ptr]
      readable_data_length == _mrrb_reader_get_continuous_readable_space(wp, done)
  IN IF reader.status # ACTIVE
       THEN [reader |-> reader, len |-> 0]
     ELSE IF readable_data_length > 0
       THEN [reader |-> [done EXCEPT !.read_ptr =
                           _mrrb_advance_pointer(done.read_complete_ptr, readable_data_length)],
             len |-> readable_data_length]
     ELSE [reader |-> [done EXCEPT !.status = IDLE], len |-> 0]

mrrb_read_complete_call(i) ==
  LET c == ReadComplete(write_ptr, readers[i]) IN
  /\ cl[i].pc = "idle"
  /\ mutex = 0
  /\ mutex' = ClientId(i)
  /\ readers' = [readers EXCEPT ![i] = c.reader]
  /\ cl' = [cl EXCEPT ![i] = [pc |-> "rc_locked", len |-> c.len]]
  /\ notified' = [notified EXCEPT ![i] = FALSE]
  /\ UNCHANGED <<num_readers, overrun_policy, abort_data, write_ptr, reservation_ptr,
                 ongoing_writes, buffer, wr, aborted, accepted, published, got, intact, stayed, enabled_at>>

\* The reader's thread answers a notify callback it was given.
mrrb_read_complete_lock(i) == notified[i] /\ mrrb_read_complete_call(i)

\* mrrb.c 617-618
mrrb_read_complete_unlock(i) ==
  /\ cl[i].pc = "rc_locked"
  /\ mutex = ClientId(i)
  /\ mutex' = 0
  /\ cl' = [cl EXCEPT ![i] = IF cl[i].len > 0 THEN [@ EXCEPT !.pc = "rc_notify"]
                             ELSE ClientIdle]
  /\ UNCHANGED <<num_readers, overrun_policy, abort_data, readers, write_ptr,
                 reservation_ptr, ongoing_writes, buffer, wr, notified, aborted,
                 accepted, published, got, intact, stayed, enabled_at>>

\* mrrb.c 620-626
mrrb_read_complete_notify(i) ==
  /\ cl[i].pc = "rc_notify"
  /\ NotifyData(i, readers[i].read_complete_ptr, cl[i].len)
  /\ cl' = [cl EXCEPT ![i] = ClientIdle]
  /\ UNCHANGED <<num_readers, overrun_policy, abort_data, readers, write_ptr,
                 reservation_ptr, ongoing_writes, buffer, mutex, wr, aborted,
                 accepted, published, stayed, enabled_at>>

mrrb_read_complete(i) ==
  \/ mrrb_read_complete_lock(i)
  \/ mrrb_read_complete_unlock(i)
  \/ mrrb_read_complete_notify(i)

\* ----------------------------------------------------- mrrb_abort_complete
\* mrrb.c 654-679
AbortComplete(wp, ongoing, reader) ==
  LET readable_data_length == _mrrb_reader_get_continuous_readable_space(wp, reader) IN
  IF reader.status = DISABLING
    THEN [reader |-> [reader EXCEPT !.status = DISABLED], len |-> 0]
  ELSE IF reader.status # ABORTING
    THEN [reader |-> reader, len |-> 0]
  ELSE IF readable_data_length > 0 /\ ongoing = 0
    THEN [reader |-> [reader EXCEPT !.status = ACTIVE,
                        !.read_ptr = _mrrb_advance_pointer(reader.read_complete_ptr,
                                                           readable_data_length)],
          len |-> readable_data_length]
  ELSE [reader |-> [reader EXCEPT !.status = ABORTED], len |-> 0]

mrrb_abort_complete_call(i) ==
  LET c == AbortComplete(write_ptr, ongoing_writes, readers[i]) IN
  /\ cl[i].pc = "idle"
  /\ mutex = 0
  /\ mutex' = ClientId(i)
  /\ readers' = [readers EXCEPT ![i] = c.reader]
  /\ cl' = [cl EXCEPT ![i] = [pc |-> "ac_locked", len |-> c.len]]
  /\ aborted' = [aborted EXCEPT ![i] = FALSE]
  /\ UNCHANGED <<num_readers, overrun_policy, abort_data, write_ptr, reservation_ptr,
                 ongoing_writes, buffer, wr, notified, accepted, published, got, intact, stayed, enabled_at>>

\* The reader's thread answers an abort callback it was given.
mrrb_abort_complete_lock(i) == aborted[i] /\ mrrb_abort_complete_call(i)

\* mrrb.c 681-682
mrrb_abort_complete_unlock(i) ==
  /\ cl[i].pc = "ac_locked"
  /\ mutex = ClientId(i)
  /\ mutex' = 0
  /\ cl' = [cl EXCEPT ![i] = IF cl[i].len > 0 THEN [@ EXCEPT !.pc = "ac_notify"]
                             ELSE ClientIdle]
  /\ UNCHANGED <<num_readers, overrun_policy, abort_data, readers, write_ptr,
                 reservation_ptr, ongoing_writes, buffer, wr, notified, aborted,
                 accepted, published, got, intact, stayed, enabled_at>>

\* mrrb.c 684-690
mrrb_abort_complete_notify(i) ==
  /\ cl[i].pc = "ac_notify"
  /\ NotifyData(i, readers[i].read_complete_ptr, cl[i].len)
  /\ cl' = [cl EXCEPT ![i] = ClientIdle]
  /\ UNCHANGED <<num_readers, overrun_policy, abort_data, readers, write_ptr,
                 reservation_ptr, ongoing_writes, buffer, mutex, wr, aborted,
                 accepted, published, stayed, enabled_at>>

mrrb_abort_complete(i) ==
  \/ mrrb_abort_complete_lock(i)
  \/ mrrb_abort_complete_unlock(i)
  \/ mrrb_abort_complete_notify(i)

\* ----------------------------------------------------- mrrb_reader_disable
\* mrrb.c 183-200
\* Variant: the reader is disabled at once, whether or not it can be aborted.
ReaderDisable_direct(reader, has_abort) ==
  IF IsDisabled(reader) THEN reader ELSE [reader EXCEPT !.status = DISABLED]

ReaderDisable(reader, has_abort) ==
  IF IsDisabled(reader) THEN reader
  ELSE IF has_abort THEN [reader EXCEPT !.status = DISABLING]
  ELSE [reader EXCEPT !.status = DISABLED]

mrrb_reader_disable_lock(i) ==
  LET r == ReaderDisable(readers[i], abort_data[i]) IN
  /\ cl[i].pc = "idle"
  /\ mutex = 0
  /\ mutex' = ClientId(i)
  /\ readers' = [readers EXCEPT ![i] = r]
  /\ cl' = [cl EXCEPT ![i] =
              [pc |-> "dis_locked",
               len |-> IF ~IsDisabled(readers[i]) /\ abort_data[i] THEN 1 ELSE 0]]
  /\ stayed' = [stayed EXCEPT ![i] = FALSE]
  /\ enabled_at' = enabled_at
  /\ UNCHANGED <<num_readers, overrun_policy, abort_data, write_ptr, reservation_ptr,
                 ongoing_writes, buffer, wr, notified, aborted, accepted, published, got, intact>>

\* mrrb.c 202-203
mrrb_reader_disable_unlock(i) ==
  /\ cl[i].pc = "dis_locked"
  /\ mutex = ClientId(i)
  /\ mutex' = 0
  /\ cl' = [cl EXCEPT ![i] = IF cl[i].len > 0 THEN [@ EXCEPT !.pc = "dis_abort"]
                             ELSE ClientIdle]
  /\ UNCHANGED <<num_readers, overrun_policy, abort_data, readers, write_ptr,
                 reservation_ptr, ongoing_writes, buffer, wr, notified, aborted,
                 accepted, published, got, intact, stayed, enabled_at>>

\* mrrb.c 205-208
mrrb_reader_disable_abort(i) ==
  /\ cl[i].pc = "dis_abort"
  /\ AbortData(i)
  /\ cl' = [cl EXCEPT ![i] = ClientIdle]
  /\ UNCHANGED <<num_readers, overrun_policy, abort_data, readers, write_ptr,
                 reservation_ptr, ongoing_writes, buffer, mutex, wr, notified,
                 accepted, published, got, intact, stayed, enabled_at>>

mrrb_reader_disable(i) ==
  \/ mrrb_reader_disable_lock(i)
  \/ mrrb_reader_disable_unlock(i)
  \/ mrrb_reader_disable_abort(i)

\* ------------------------------------------------------ mrrb_reader_enable
\* Variant: the reader is emptied whatever its status.
ReaderEnable_always(res, reader) ==
  [status |-> IDLE, read_ptr |-> res, read_complete_ptr |-> res, is_full |-> FALSE]

\* mrrb.c 147-160
ReaderEnable(res, reader) ==
  IF IsDisabled(reader)
    THEN [status |-> IDLE, read_ptr |-> res, read_complete_ptr |-> res, is_full |-> FALSE]
    ELSE reader

mrrb_reader_enable_lock(i) ==
  /\ cl[i].pc = "idle"
  /\ mutex = 0
  /\ mutex' = ClientId(i)
  /\ readers' = [readers EXCEPT ![i] = ReaderEnable(reservation_ptr, readers[i])]
  /\ cl' = [cl EXCEPT ![i] = [pc |-> "en_locked", len |-> 0]]
  /\ enabled_at' = [enabled_at EXCEPT ![i] = IF IsDisabled(readers[i]) THEN accepted ELSE @]
  /\ UNCHANGED <<num_readers, overrun_policy, abort_data, write_ptr, reservation_ptr,
                 ongoing_writes, buffer, wr, notified, aborted, accepted, published, got, intact,
                 stayed>>

\* mrrb.c 162-164
mrrb_reader_enable_unlock(i) ==
  /\ cl[i].pc = "en_locked"
  /\ mutex = ClientId(i)
  /\ mutex' = 0
  /\ cl' = [cl EXCEPT ![i] = ClientIdle]
  /\ UNCHANGED <<num_readers, overrun_policy, abort_data, readers, write_ptr,
                 reservation_ptr, ongoing_writes, buffer, wr, notified, aborted,
                 accepted, published, got, intact, stayed, enabled_at>>

mrrb_reader_enable(i) ==
  \/ mrrb_reader_enable_lock(i)
  \/ mrrb_reader_enable_unlock(i)

\* ------------------------------------------------------------ specification
\* Writers and completing readers: every reader configuration of up to
\* MaxReaders readers.
Next ==
  \/ \E w \in Writers : mrrb_write(w)
  \/ \E i \in RIdx : mrrb_read_complete(i)
  \/ \E i \in RIdx : mrrb_abort_complete(i)

Spec == Init /\ [][Next]_vars

\* One writer with one reader of every overrun policy (test_overrun).
InitSeq ==
  /\ mrrb_init(3)
  /\ overrun_policy = <<BLOCKING, DISABLE, SKIP>>

NextSeq ==
  \/ mrrb_write(1)
  \/ \E i \in RIdx : mrrb_read_complete(i)
  \/ \E i \in RIdx : mrrb_abort_complete(i)

SpecSeq == InitSeq /\ [][NextSeq]_vars

\* A single reader that is also disabled and enabled while it is written to.
InitCtl == mrrb_init(1)

NextCtl ==
  \/ \E w \in Writers : mrrb_write(w)
  \/ \E i \in RIdx : mrrb_read_complete(i)
  \/ \E i \in RIdx : mrrb_abort_complete(i)
  \/ \E i \in RIdx : mrrb_reader_disable(i)
  \/ \E i \in RIdx : mrrb_reader_enable(i)

SpecCtl == InitCtl /\ [][NextCtl]_vars

\* A single reader that is disabled and enabled by its own thread while one
\* thread writes (test_single_write_multiple_read, with the calls interleaved).
NextOne ==
  \/ mrrb_write(1)
  \/ \E i \in RIdx : mrrb_read_complete(i)
  \/ \E i \in RIdx : mrrb_abort_complete(i)
  \/ \E i \in RIdx : mrrb_reader_disable(i)
  \/ \E i \in RIdx : mrrb_reader_enable(i)

SpecOne == InitCtl /\ [][NextOne]_vars

\* A single reader whose thread calls the reader-side API at any time, whether
\* or not a callback asked for it, and one writer.
InitAny == mrrb_init(1)

NextAny ==
  \/ mrrb_write(1)
  \/ \E i \in RIdx : \/ mrrb_read_complete_call(i)
                      \/ mrrb_read_complete_unlock(i)
                      \/ mrrb_read_complete_notify(i)
  \/ \E i \in RIdx : \/ mrrb_abort_complete_call(i)
                      \/ mrrb_abort_complete_unlock(i)
                      \/ mrrb_abort_complete_notify(i)
  \/ \E i \in RIdx : mrrb_reader_disable(i)
  \/ \E i \in RIdx : mrrb_reader_enable(i)

SpecAny == InitAny /\ [][NextAny]_vars

\* Readers that call mrrb_read_complete from inside their notify callback
\* (swsr_immediate_read), and one thread that writes at most N bytes at a
\* time: the writing thread runs the callback and the completion nested in
\* it before it goes on.
InCallback == \E i \in RIdx : notified[i] \/ cl[i].pc # "idle"

NextImm ==
  \/ ~InCallback /\ \E data_length \in 1..N : mrrb_write_reserve(1, data_length)
  \/ ~InCallback /\ mrrb_write_unlock_reserve(1)
  \/ ~InCallback /\ mrrb_write_copy(1)
  \/ ~InCallback /\ mrrb_write_publish(1)
  \/ ~InCallback /\ mrrb_write_unlock_publish(1)
  \/ ~InCallback /\ mrrb_write_notify(1)
  \/ \E i \in RIdx : mrrb_read_complete(i)

SpecImm == Init /\ [][NextImm]_vars

\* ------------------------------------------------ early returns and the port
\* The position "return_x" of a thread is the return statement it has reached;
\* mrrb_write returns 0 at "return_zero" and "return_isr" and -1 at
\* "return_lock", "return_unlock" and "return_relock".
WriteReturns == {"return_zero", "return_isr", "return_lock", "return_unlock", "return_relock"}

ReaderReturns == {"rc_return", "ac_return", "en_return", "dis_return"}

\* Variant: a write of no bytes takes the lock and reserves like any other.
mrrb_write_zero_reserved(w) == mrrb_write_reserve(w, 0)

\* mrrb.c 419-422: data_length == 0
mrrb_write_zero(w) ==
  /\ wr[w].pc = "idle"
  /\ wr' = [wr EXCEPT ![w].pc = "return_zero"]
  /\ UNCHANGED <<num_readers, overrun_policy, abort_data, readers, write_ptr,
                 reservation_ptr, ongoing_writes, buffer, mutex, cl, notified, aborted,
                 accepted, published, got, intact, stayed, enabled_at>>

\* Variant: the build allows writes from interrupt context.
mrrb_write_isr_allowed(w) ==
  \E data_length \in 1..MaxDataLength : mrrb_write_reserve(w, data_length)

\* mrrb.c 424-428: port_interrupt_active() in a build with
\* MRRB_ALLOW_WRITE_FROM_ISR == 0
mrrb_write_isr(w) ==
  /\ wr[w].pc = "idle"
  /\ wr' = [wr EXCEPT ![w].pc = "return_isr"]
  /\ UNCHANGED <<num_readers, overrun_policy, abort_data, readers, write_ptr,
                 reservation_ptr, ongoing_writes, buffer, mutex, cl, notified, aborted,
                 accepted, published, got, intact, stayed, enabled_at>>

\* mrrb.c 433-437: port_lock fails (port.h 65-71: the mutex is not taken)
mrrb_write_lock_fail(w) ==
  /\ wr[w].pc = "idle"
  /\ wr' = [wr EXCEPT ![w].pc = "return_lock"]
  /\ UNCHANGED <<num_readers, overrun_policy, abort_data, readers, write_ptr,
                 reservation_ptr, ongoing_writes, buffer, mutex, cl, notified, aborted,
                 accepted, published, got, intact, stayed, enabled_at>>

\* mrrb.c 488-491: port_unlock fails (port.h 73-79: the mutex is not released)
mrrb_write_unlock_fail(w) ==
  /\ wr[w].pc = "reserved"
  /\ mutex = w
  /\ ongoing_writes <= MaxOngoing
  /\ wr' = [wr EXCEPT ![w].pc = "return_unlock"]
  /\ UNCHANGED <<num_readers, overrun_policy, abort_data, readers, write_ptr,
                 reservation_ptr, ongoing_writes, buffer, mutex, cl, notified, aborted,
                 accepted, published, got, intact, stayed, enabled_at>>

\* mrrb.c 513-517: the second port_lock fails
mrrb_write_relock_fail(w) ==
  /\ wr[w].pc = "publish"
  /\ ongoing_writes <= MaxOngoing
  /\ wr' = [wr EXCEPT ![w].pc = "return_relock"]
  /\ UNCHANGED <<num_readers, overrun_policy, abort_data, readers, write_ptr,
                 reservation_ptr, ongoing_writes, buffer, mutex, cl, notified, aborted,
                 accepted, published, got, intact, stayed, enabled_at>>

\* mrrb_write has returned to its caller
mrrb_write_return(w) ==
  /\ wr[w].pc \in WriteReturns
  /\ wr' = [wr EXCEPT ![w] = WriterIdle]
  /\ UNCHANGED <<num_readers, overrun_policy, abort_data, readers, write_ptr,
                 reservation_ptr, ongoing_writes, buffer, mutex, cl, notified, aborted,
                 accepted, published, got, intact, stayed, enabled_at>>

\* mrrb.c 591-595: port_lock fails in the answer to a notify callback
mrrb_read_complete_lock_fail(i) ==
  /\ cl[i].pc = "idle"
  /\ notified[i]
  /\ cl' = [cl EXCEPT ![i].pc = "rc_return"]
  /\ notified' = [notified EXCEPT ![i] = FALSE]
  /\ UNCHANGED <<num_readers, overrun_policy, abort_data, readers, write_ptr,
                 reservation_ptr, ongoing_writes, buffer, mutex, wr, aborted,
                 accepted, published, got, intact, stayed, enabled_at>>

\* mrrb.c 654-658: port_lock fails in the answer to an abort callback
mrrb_abort_complete_lock_fail(i) ==
  /\ cl[i].pc = "idle"
  /\ aborted[i]
  /\ cl' = [cl EXCEPT ![i].pc = "ac_return"]
  /\ aborted' = [aborted EXCEPT ![i] = FALSE]
  /\ UNCHANGED <<num_readers, overrun_policy, abort_data, readers, write_ptr,
                 reservation_ptr, ongoing_writes, buffer, mutex, wr, notified,
                 accepted, published, got, intact, stayed, enabled_at>>

\* mrrb.c 147-151
mrrb_reader_enable_lock_fail(i) ==
  /\ cl[i].pc = "idle"
  /\ cl' = [cl EXCEPT ![i].pc = "en_return"]
  /\ UNCHANGED <<num_readers, overrun_policy, abort_data, readers, write_ptr,
                 reservation_ptr, ongoing_writes, buffer, mutex, wr, notified, aborted,
                 accepted, published, got, intact, stayed, enabled_at>>

\* mrrb.c 183-187
mrrb_reader_disable_lock_fail(i) ==
  /\ cl[i].pc = "idle"
  /\ cl' = [cl EXCEPT ![i].pc = "dis_return"]
  /\ UNCHANGED <<num_readers, overrun_policy, abort_data, readers, write_ptr,
                 reservation_ptr, ongoing_writes, buffer, mutex, wr, notified, aborted,
                 accepted, published, got, intact, stayed, enabled_at>>

\* the reader-side call has returned to its caller
mrrb_reader_return(i) ==
  /\ cl[i].pc \in ReaderReturns
  /\ cl' = [cl EXCEPT ![i] = ClientIdle]
  /\ UNCHANGED <<num_readers, overrun_policy, abort_data, readers, write_ptr,
                 reservation_ptr, ongoing_writes, buffer, mutex, wr, notified, aborted,
                 accepted, published, got, intact, stayed, enabled_at>>

\* One writer and one reader on a port whose lock and unlock calls can fail
\* and which can report interrupt context; the writer also writes no bytes.
InitPort == mrrb_init(1)

NextPort ==
  \/ mrrb_write(1)
  \/ mrrb_write_zero(1)
  \/ mrrb_write_isr(1)
  \/ mrrb_write_lock_fail(1)
  \/ mrrb_write_unlock_fail(1)
  \/ mrrb_write_relock_fail(1)
  \/ mrrb_write_return(1)
  \/ \E i \in RIdx : mrrb_read_complete(i)
  \/ \E i \in RIdx : mrrb_abort_complete(i)
  \/ \E i \in RIdx : mrrb_reader_disable(i)
  \/ \E i \in RIdx : mrrb_reader_enable(i)
  \/ \E i \in RIdx : mrrb_read_complete_lock_fail(i)
  \/ \E i \in RIdx : mrrb_abort_complete_lock_fail(i)
  \/ \E i \in RIdx : mrrb_reader_enable_lock_fail(i)
  \/ \E i \in RIdx : mrrb_reader_disable_lock_fail(i)
  \/ \E i \in RIdx : mrrb_reader_return(i)

SpecPort == InitPort /\ [][NextPort]_vars

\* ------------------------------------------------------------- fair drain
\* The writing thread leaves its loop and calls mrrb_write no more
\* (multi_write_writer_thread returns).
multi_write_writer_thread_exit(w) ==
  /\ wr[w].pc = "idle"
  /\ wr' = [wr EXCEPT ![w].pc = "done"]
  /\ UNCHANGED <<num_readers, overrun_policy, abort_data, readers, write_ptr,
                 reservation_ptr, ongoing_writes, buffer, mutex, cl, notified, aborted,
                 accepted, published, got, intact, stayed, enabled_at>>

\* The steps of mrrb_write after its reservation.
mrrb_write_continue(w) ==
  \/ mrrb_write_unlock_reserve(w)
  \/ mrrb_write_abort(w)
  \/ mrrb_write_copy(w)
  \/ mrrb_write_publish(w)
  \/ mrrb_write_unlock_publish(w)
  \/ mrrb_write_notify(w)

\* Writing threads that stop at some time and a reader that answer every
\* callback: a thread inside a call goes on, and a reader that got a notify or
\* an abort callback calls mrrb_read_complete or mrrb_abort_complete.
NextDrain ==
  \/ \E w \in Writers : mrrb_write(w)
  \/ \E w \in Writers : multi_write_writer_thread_exit(w)
  \/ \E i \in RIdx : mrrb_read_complete(i)
  \/ \E i \in RIdx : mrrb_abort_complete(i)

FairDrain ==
  /\ \A w \in Writers : WF_vars(mrrb_write_continue(w))
  /\ \A i \in 1..MaxReaders : WF_vars(i \in RIdx /\ mrrb_read_complete(i))
  /\ \A i \in 1..MaxReaders : WF_vars(i \in RIdx /\ mrrb_abort_complete(i))

SpecDrain == InitCtl /\ [][NextDrain]_vars /\ FairDrain

\* ---------------------------------------------------- cooperative writers
\* Largest write of a writer that polls for NumWriters times as much room:
\* TEST_MULTI_WRITE_MAX_DATA_SIZE plus the header, with
\* (header + data) * writers <= buffer length (test.c 1499-1501).
MaxCoopLength == CoopBufferLength \div NumWriters

\* test.c 492-500: the writing thread polls mrrb_get_remaining_space, without
\* the lock, until it sees room for the largest write of every writer.
multi_write_writer_thread_poll(w) ==
  /\ wr[w].pc = "idle"
  /\ mrrb_get_remaining_space(reservation_ptr, readers) >= NumWriters * MaxCoopLength
  /\ wr' = [wr EXCEPT ![w].pc = "checked"]
  /\ UNCHANGED <<num_readers, overrun_policy, abort_data, readers, write_ptr,
                 reservation_ptr, ongoing_writes, buffer, mutex, cl, notified, aborted,
                 accepted, published, got, intact, stayed, enabled_at>>

\* test.c 515-523: it then writes at most MaxCoopLength bytes.
multi_write_writer_thread_write(w) ==
  \E data_length \in 1..MaxCoopLength :
    /\ accepted + data_length <= MaxCoopStream
    /\ mrrb_write_reserve_from(w, data_length, "checked")

\* mrrb_init with BLOCKING readers only (multi_write_reader threads).
InitCoop ==
  \E n \in 1..MaxReaders :
    /\ mrrb_init_buffer(n, CoopBufferLength)
    /\ overrun_policy = [i \in 1..n |-> BLOCKING]
    /\ abort_data = [i \in 1..n |-> FALSE]

NextCoop ==
  \/ \E w \in Writers : multi_write_writer_thread_poll(w)
  \/ \E w \in Writers : multi_write_writer_thread_write(w)
  \/ \E w \in Writers : mrrb_write_unlock_reserve(w)
  \/ \E w \in Writers : mrrb_write_copy(w)
  \/ \E w \in Writers : mrrb_write_publish(w)
  \/ \E w \in Writers : mrrb_write_unlock_publish(w)
  \/ \E w \in Writers : mrrb_write_notify(w)
  \/ \E i \in RIdx : mrrb_read_complete(i)

SpecCoop == InitCoop /\ [][NextCoop]_vars

\* --------------------------------------------------- triggered reader
\* test.c 368-401, 446-457: the reader's callback only counts an
\* outstanding trigger (notified); the test thread answers it later with
\* mrrb_read_complete, between two calls of mrrb_write.
swsr_triggered_read_trigger(i) == wr[1].pc = "idle" /\ mrrb_read_complete(i)

\* test.c 941-973: every write is made with no trigger outstanding, and is
\* followed by triggers until none is outstanding.  The single reader is of
\* any policy: the writes find the buffer empty, so no reader is overrun.
NextAfter ==
  \/ \E data_length \in 1..N :
       /\ ~notified[1] /\ cl[1].pc = "idle"
       /\ mrrb_write_reserve(1, data_length)
  \/ mrrb_write_unlock_reserve(1)
  \/ mrrb_write_copy(1)
  \/ mrrb_write_publish(1)
  \/ mrrb_write_unlock_publish(1)
  \/ mrrb_write_notify(1)
  \/ swsr_triggered_read_trigger(1)

SpecAfter == InitCtl /\ [][NextAfter]_vars

\* test.c 1006-1040: the writes of a batch follow each other while the first
\* trigger is outstanding; every write of the test fits the room left.  The
\* thread then leaves the write loop and triggers until nothing is
\* outstanding, and starts the next batch.
consec_write(data_length) ==
  /\ cl[1].pc = "idle"
  /\ data_length <= mrrb_get_remaining_space(reservation_ptr, readers)
  /\ mrrb_write_reserve(1, data_length)

consec_batch_written ==
  /\ wr[1].pc = "idle"
  /\ notified[1]
  /\ wr' = [wr EXCEPT ![1].pc = "trigger"]
  /\ UNCHANGED <<num_readers, overrun_policy, abort_data, readers, write_ptr,
                 reservation_ptr, ongoing_writes, buffer, mutex, cl, notified, aborted,
                 accepted, published, got, intact, stayed, enabled_at>>

consec_trigger(i) == wr[1].pc = "trigger" /\ mrrb_read_complete(i)

consec_batch_read ==
  /\ wr[1].pc = "trigger"
  /\ ~notified[1] /\ cl[1].pc = "idle"
  /\ wr' = [wr EXCEPT ![1].pc = "idle"]
  /\ UNCHANGED <<num_readers, overrun_policy, abort_data, readers, write_ptr,
                 reservation_ptr, ongoing_writes, buffer, mutex, cl, notified, aborted,
                 accepted, published, got, intact, stayed, enabled_at>>

NextConsec ==
  \/ \E data_length \in 1..N : consec_write(data_length)
  \/ mrrb_write_unlock_reserve(1)
  \/ mrrb_write_copy(1)
  \/ mrrb_write_publish(1)
  \/ mrrb_write_unlock_publish(1)
  \/ mrrb_write_notify(1)
  \/ consec_batch_written
  \/ consec_trigger(1)
  \/ consec_batch_read

SpecConsec == InitCtl /\ [][NextConsec]_vars

\* ------------------------------------------------------------------ claims
Quiescent == ongoing_writes = 0 /\ \A w \in Writers : wr[w].pc = "idle"

Drained(i) == Quiescent /\ readers[i].status = IDLE /\ cl[i].pc = "idle"

\* C1: a BLOCKING reader that was never disabled is passed, slice by slice,
\* exactly the accepted byte stream: what it has been passed so far is a
\* prefix of the stream (nothing twice, skipped, reordered or unwritten), and
\* it is the whole stream once the reader has drained.
C1_NoLossBlocking ==
  \A i \in RIdx :
    (overrun_policy[i] = BLOCKING /\ stayed[i]) =>
      /\ intact[i]
      /\ got[i] <= accepted
      /\ Drained(i) => got[i] = accepted


\* The step is the reservation phase of a write of data_length bytes by w.
Reserves(w, data_length) == mrrb_write_reserve(w, data_length)

EnabledBlocking(i) == overrun_policy[i] = BLOCKING /\ ~IsDisabled(readers[i])

\* C2: every reservation takes at most space(r) bytes of every BLOCKING
\* reader r that is not disabled, with space(r) measured when the
\* reservation is made.
C2_BlockingNeverOverrun ==
  [][\A w \in Writers : \A n \in 1..MaxDataLength :
       Reserves(w, n) =>
         \A i \in RIdx :
           EnabledBlocking(i) =>
             wr'[w].write_length <=
               _mrrb_reader_get_remaining_space(reservation_ptr, readers[i])]_vars

\* The stream position of the byte the latest reservation put in cell c; 0
\* when no reservation has covered the cell yet.
Reserved(c) ==
  LET d == (reservation_ptr - 1 - c + N) % N IN
  IF d < accepted THEN accepted - d ELSE 0

\* The step passes the slice (ptr, len) to the notify callback of reader i.
Notifies(i, ptr, len) ==
  \/ \E w \in Writers :
       /\ mrrb_write_notify(w)
       /\ i = LowestFlag(wr[w].flags)
       /\ ptr = readers[i].read_complete_ptr
       /\ len = _mrrb_reader_get_continuous_readable_space(write_ptr, readers[i])
  \/ /\ mrrb_read_complete_notify(i) \/ mrrb_abort_complete_notify(i)
     /\ ptr = readers[i].read_complete_ptr
     /\ len = cl[i].len

\* C3: a slice passed to a notify callback holds no byte that a writer has
\* reserved and that is not yet published when the callback is invoked.
C3_PublishedOnly ==
  [][\A i \in RIdx : \A ptr \in Offsets : \A len \in 0..N :
       Notifies(i, ptr, len) =>
         \A c \in Offsets :
           (ptr <= c /\ c < ptr + len) => Reserved(c) <= published]_vars

\* The thread is at the point where it invokes a notify or abort callback.
WriterInCallback(w) == wr[w].pc \in {"abort", "notify"}

ClientInCallback(i) == cl[i].pc \in {"rc_notify", "ac_notify", "dis_abort"}

\* C4: a thread that invokes a notify or abort callback, in mrrb_write,
\* mrrb_read_complete, mrrb_abort_complete or mrrb_reader_disable, does not
\* hold the lock.
C4_NoCallbackUnderLock ==
  /\ \A w \in Writers : WriterInCallback(w) => mutex # w
  /\ \A i \in RIdx : ClientInCallback(i) => mutex # ClientId(i)

\* A writer is about to notify while the reader's thread is about to run the
\* abort callback of mrrb_reader_disable.
C4_Witness ==
  /\ \E w \in Writers : wr[w].pc = "notify"
  /\ \E i \in RIdx : cl[i].pc = "dis_abort"

\* Forward distance from the reservation pointer to a pointer, N when equal.
Distance(res, ptr) == IF ptr > res THEN ptr - res ELSE N - (res - ptr)

\* space(r): bytes from reservation_ptr forward to r.read_complete_ptr
SpaceOf(res, reader) ==
  IF IsDisabled(reader) THEN N
  ELSE IF reader.is_full THEN 0
  ELSE Distance(res, reader.read_complete_ptr)

Remaining(res, rds) == SetMin({N} \cup {SpaceOf(res, rds[i]) : i \in RIdx})

Overwritable(res, rds) ==
  SetMin({N} \cup {SpaceOf(res, rds[i]) : i \in {j \in RIdx : overrun_policy[j] = BLOCKING}})

\* The reservation overruns and clears readers: n > remaining < overwritable.
Clears(n) ==
  /\ n > Remaining(reservation_ptr, readers)
  /\ Overwritable(reservation_ptr, readers) > Remaining(reservation_ptr, readers)

\* The readers as overrun clearing leaves them, before the reservation moves.
Cleared(n) == _mrrb_clear_overrun_space(reservation_ptr, readers, Min(n, N)).readers

\* C5: a write of n > 0 bytes reserves n when n <= remaining; remaining when
\* n > remaining and overwritable <= remaining; otherwise the smaller of n
\* and the remaining space measured again after overrun clearing.  It
\* reserves at most min(n, N) and moves reservation_ptr by that much modulo N.
C5_WriteLength ==
  [][\A w \in Writers : \A n \in 1..MaxDataLength :
       Reserves(w, n) =>
         LET remaining    == Remaining(reservation_ptr, readers)
             overwritable == Overwritable(reservation_ptr, readers)
             m            == wr'[w].write_length
         IN /\ m = IF n <= remaining THEN n
                   ELSE IF overwritable <= remaining THEN remaining
                   ELSE Min(n, Remaining(reservation_ptr, Cleared(n)))
            /\ 0 <= m /\ m <= Min(n, N)
            /\ reservation_ptr' = (reservation_ptr + m) % N]_vars

\* Reader i holds bytes it was shown or is about to be shown.
Holds(i) == readers[i].status = ACTIVE /\ SpaceOf(reservation_ptr, readers[i]) < N

\* The overrun scenario: one reader of every policy, all holding bytes, and a
\* write of more than the remaining space.
Scenario(n) ==
  /\ overrun_policy = <<BLOCKING, DISABLE, SKIP>>
  /\ \A i \in RIdx : Holds(i)
  /\ n > Remaining(reservation_ptr, readers)

\* The BLOCKING reader holds at least as much as the other two.
BlockingTightest ==
  \A i \in RIdx : SpaceOf(reservation_ptr, readers[1]) <= SpaceOf(reservation_ptr, readers[i])

\* C6 as stated: in the overrun scenario the write returns what fits around
\* the BLOCKING reader, the DISABLE reader becomes DISABLED or DISABLING and
\* the SKIP reader stays ACTIVE with read_complete_ptr advanced by the deficit.
C6_AsStated ==
  [][\A n \in 1..MaxDataLength :
       (Reserves(1, n) /\ Scenario(n) /\ BlockingTightest) =>
         /\ wr'[1].write_length = SpaceOf(reservation_ptr, readers[1])
         /\ readers'[2].status \in {DISABLED, DISABLING}
         /\ readers'[3].status = ACTIVE
         /\ readers'[3].read_complete_ptr =
              (readers[3].read_complete_ptr + Min(n, N)
                 - SpaceOf(reservation_ptr, readers[3])) % N]_vars

\* C6: in the overrun scenario with all three readers holding the same bytes,
\* the write returns what fits around the BLOCKING reader and clears no
\* reader: the DISABLE and the SKIP reader stay ACTIVE, their
\* read_complete_ptr does not move and no abort callback is scheduled.
C6_OverrunScenario ==
  [][\A n \in 1..MaxDataLength :
       (Reserves(1, n) /\ Scenario(n) /\ BlockingTightest) =>
         /\ wr'[1].write_length = SpaceOf(reservation_ptr, readers[1])
         /\ wr'[1].flags = {}
         /\ \A i \in {2, 3} :
              /\ readers'[i].status = ACTIVE
              /\ readers'[i].read_complete_ptr = readers[i].read_complete_ptr]_vars

\* The write of the scenario has reserved the bytes that fit, and the three
\* readers are still ACTIVE.
C6_Witness ==
  /\ overrun_policy = <<BLOCKING, DISABLE, SKIP>>
  /\ wr[1].pc = "reserved"
  /\ wr[1].data_length > wr[1].remaining_space
  /\ wr[1].write_length = wr[1].remaining_space
  /\ wr[1].write_length > 0
  /\ \A i \in RIdx : readers[i].status = ACTIVE /\ readers[i].is_full

\* An enabled BLOCKING reader is one of the tightest readers.
BlockingIsTightest ==
  \E i \in RIdx :
    /\ EnabledBlocking(i)
    /\ SpaceOf(reservation_ptr, readers[i]) = Remaining(reservation_ptr, readers)

NoEnabledBlocking == \A i \in RIdx : ~EnabledBlocking(i)

\* C8: when no reader that is not disabled has policy BLOCKING, a write of
\* n > 0 bytes reserves min(n, N) bytes.
C8_NeverShortened ==
  [][\A w \in Writers : \A n \in 1..MaxDataLength :
       (Reserves(w, n) /\ NoEnabledBlocking) => wr'[w].write_length = Min(n, N)]_vars

\* A write into a full buffer without BLOCKING readers has reserved all it
\* asked for while another write is in flight.
C8_Witness ==
  \E w \in Writers :
    /\ wr[w].pc = "reserved"
    /\ NoEnabledBlocking
    /\ wr[w].remaining_space = 0
    /\ wr[w].write_length = Min(wr[w].data_length, N)
    /\ ongoing_writes = 2

\* C9: when overrun clearing runs for a write requesting min(n, N) bytes, a
\* DISABLE reader that is ACTIVE with less space than requested becomes
\* DISABLING with its abort callback scheduled, or DISABLED when it has no
\* abort callback, and counts N bytes of space from then on; one with enough
\* space is left as it is.  A scheduled abort callback is invoked once, by a
\* writer that does not hold the lock.
C9_DisablePolicy ==
  [][\A w \in Writers :
       /\ \A n \in 1..MaxDataLength :
            (Reserves(w, n) /\ Clears(n)) =>
              \A i \in RIdx :
                (overrun_policy[i] = DISABLE /\ readers[i].status = ACTIVE) =>
                  IF SpaceOf(reservation_ptr, readers[i]) < Min(n, N)
                    THEN /\ readers'[i].status =
                              IF abort_data[i] THEN DISABLING ELSE DISABLED
                         /\ (i \in wr'[w].flags) = abort_data[i]
                         /\ SpaceOf(reservation_ptr', readers'[i]) = N
                    ELSE /\ readers'[i].status = ACTIVE
                         /\ readers'[i].read_complete_ptr = readers[i].read_complete_ptr
                         /\ i \notin wr'[w].flags
       /\ mrrb_write_abort(w) =>
            /\ mutex # w
            /\ aborted'[LowestFlag(wr[w].flags)]
            /\ LowestFlag(wr[w].flags) \notin wr'[w].flags]_vars

\* Overrun clearing has disabled a DISABLE reader and scheduled its abort
\* callback.
C9_Witness ==
  \E w \in Writers : \E i \in RIdx :
    /\ wr[w].pc = "reserved"
    /\ wr[w].abort_readers
    /\ overrun_policy[i] = DISABLE
    /\ readers[i].status = DISABLING
    /\ i \in wr[w].flags

\* C10: when overrun clearing meets a SKIP reader with less space than the
\* requested min(n, N) bytes, an ACTIVE reader becomes ABORTING with
\* read_complete_ptr moved to read_ptr and its abort callback scheduled; an
\* ABORTING or ABORTED reader keeps its state and gets no abort callback;
\* then read_complete_ptr is advanced modulo N by what is still missing, so
\* that the requested bytes fit in front of it.
C10_SkipPolicy ==
  [][\A w \in Writers : \A n \in 1..MaxDataLength :
       (Reserves(w, n) /\ Clears(n)) =>
         \A i \in RIdx :
           (/\ overrun_policy[i] = SKIP
            /\ readers[i].status \in {ACTIVE, ABORTING, ABORTED}
            /\ SpaceOf(reservation_ptr, readers[i]) < Min(n, N)) =>
             LET r       == readers[i]
                 base    == IF r.status = ACTIVE THEN r.read_ptr ELSE r.read_complete_ptr
                 space   == IF r.status = ACTIVE THEN Distance(reservation_ptr, r.read_ptr)
                            ELSE SpaceOf(reservation_ptr, r)
                 deficit == Min(n, N) - space
             IN /\ readers'[i].status = IF r.status = ACTIVE THEN ABORTING ELSE r.status
                /\ (i \in wr'[w].flags) = (r.status = ACTIVE)
                /\ readers'[i].read_complete_ptr =
                     IF deficit > 0 THEN (base + deficit) % N ELSE base
                /\ Distance(reservation_ptr, readers'[i].read_complete_ptr) >= Min(n, N)
                /\ readers'[i].read_ptr = r.read_ptr]_vars

\* Overrun clearing has moved a SKIP reader to ABORTING and scheduled its
\* abort callback, and has advanced a SKIP reader that was already aborting.
C10_Witness ==
  \E w \in Writers : \E i, j \in RIdx :
    /\ wr[w].pc = "reserved"
    /\ wr[w].abort_readers
    /\ overrun_policy[i] = SKIP
    /\ readers[i].status = ABORTING
    /\ i \in wr[w].flags
    /\ overrun_policy[j] = SKIP
    /\ readers[j].status \in {ABORTING, ABORTED}
    /\ j \notin wr[w].flags
    /\ readers[j].is_full

\* Overrun clearing for requested_space bytes advances the read_complete_ptr
\* of SKIP reader i over bytes the reader was not shown.
SkipAdvances(i, requested_space) ==
  /\ overrun_policy[i] = SKIP
  /\ readers[i].status \in {ACTIVE, ABORTING, ABORTED}
  /\ SpaceOf(reservation_ptr, readers[i]) < requested_space
  /\ SpaceOf(reservation_ptr, SkipAbortReader(readers[i])) < requested_space

\* C11: when overrun clearing advances a SKIP reader over bytes it was not
\* shown, then once the write has reserved its bytes the reader's
\* read_complete_ptr is the new reservation_ptr and its is_full is set: the
\* reader skipped no byte the write did not take.
C11_SkipRestart ==
  [][\A w \in Writers : \A n \in 1..MaxDataLength :
       (Reserves(w, n) /\ Clears(n)) =>
         \A i \in RIdx :
           SkipAdvances(i, Min(n, N)) =>
             /\ readers'[i].read_complete_ptr = reservation_ptr'
             /\ readers'[i].is_full]_vars

\* The continuous published span that starts at the reader's
\* read_complete_ptr: up to write_ptr, or up to the end of the buffer when
\* the data wraps.
Span(reader) ==
  IF reader.read_complete_ptr > write_ptr \/ reader.is_full
    THEN N - reader.read_complete_ptr
    ELSE write_ptr - reader.read_complete_ptr

\* C12: mrrb_abort_complete turns a DISABLING reader DISABLED without a
\* callback; it turns an ABORTING reader ACTIVE, with one notify of the
\* continuous published span at its read_complete_ptr, when that span is not
\* empty and no write is ongoing, and ABORTED without a notify otherwise; in
\* every other state it changes nothing.  The notify passes the span the
\* reader was restarted with.
C12_AbortComplete ==
  [][\A i \in RIdx :
       /\ mrrb_abort_complete_call(i) =>
            LET r == readers[i] IN
            IF r.status = DISABLING
              THEN readers'[i] = [r EXCEPT !.status = DISABLED] /\ cl'[i].len = 0
            ELSE IF r.status = ABORTING
              THEN IF Span(r) > 0 /\ ongoing_writes = 0
                     THEN /\ readers'[i] =
                               [r EXCEPT !.status = ACTIVE,
                                         !.read_ptr = (r.read_complete_ptr + Span(r)) % N]
                          /\ cl'[i].len = Span(r)
                     ELSE /\ readers'[i] = [r EXCEPT !.status = ABORTED]
                          /\ cl'[i].len = 0
            ELSE readers'[i] = r /\ cl'[i].len = 0
       /\ mrrb_abort_complete_unlock(i) =>
            (cl'[i].pc = "ac_notify") = (cl[i].len > 0)
       /\ mrrb_abort_complete_notify(i) =>
            /\ cl[i].len > 0
            /\ readers[i].read_complete_ptr + cl[i].len <= N
            /\ readers[i].read_ptr = (readers[i].read_complete_ptr + cl[i].len) % N
            /\ cl'[i].pc = "idle"]_vars

\* The reader once its shown slice is completed.
Completed(reader) ==
  [reader EXCEPT !.read_complete_ptr = reader.read_ptr, !.is_full = FALSE]

\* C13: mrrb_read_complete on an ACTIVE reader sets read_complete_ptr to
\* read_ptr and clears is_full; when published bytes remain the reader stays
\* ACTIVE, read_ptr moves to the end of the next continuous span and that
\* span is notified once, after the unlock; otherwise the reader becomes IDLE
\* and nothing is notified.  The notify passes the span the reader was
\* advanced over.
C13_ReadComplete ==
  [][\A i \in RIdx :
       /\ (mrrb_read_complete_call(i) /\ readers[i].status = ACTIVE) =>
            LET done == Completed(readers[i]) IN
            IF Span(done) > 0
              THEN /\ readers'[i] =
                        [done EXCEPT !.read_ptr = (done.read_complete_ptr + Span(done)) % N]
                   /\ cl'[i].len = Span(done)
              ELSE /\ readers'[i] = [done EXCEPT !.status = IDLE]
                   /\ cl'[i].len = 0
       /\ mrrb_read_complete_unlock(i) =>
            (cl'[i].pc = "rc_notify") = (cl[i].len > 0)
       /\ mrrb_read_complete_notify(i) =>
            /\ cl[i].len > 0
            /\ mutex # ClientId(i)
            /\ readers[i].read_complete_ptr + cl[i].len <= N
            /\ readers[i].read_ptr = (readers[i].read_complete_ptr + cl[i].len) % N
            /\ cl'[i].pc = "idle"]_vars

\* mrrb_write has returned, with every callback it made.
Returned == wr[1].pc = "idle" /\ ~InCallback

\* C14: with readers that complete inside their notify callback and
\* sequential writes of at most N bytes, every write reserves its full length
\* without clearing a reader, and when it has returned every reader is IDLE,
\* the buffer is empty and every reader has been passed exactly the bytes
\* accepted so far.
C14_ReentrantCompletion ==
  [][/\ \A n \in 1..N :
          Reserves(1, n) => wr'[1].write_length = n /\ wr'[1].flags = {}
     /\ Returned' =>
          /\ \A i \in RIdx : readers'[i].status = IDLE
          /\ mrrb_is_empty(reservation_ptr', readers')
          /\ \A i \in RIdx : intact'[i] /\ got'[i] = accepted']_vars

\* The completion nested in a notify callback is about to notify the second
\* part of a wrapped write.
C14_Witness ==
  /\ num_readers = MaxReaders
  /\ \E i \in RIdx : cl[i].pc = "rc_notify" /\ readers[i].read_complete_ptr = 0
  /\ accepted > N

\* C15: mrrb_read_complete on a reader that is not ACTIVE changes no reader
\* field, no other reader, neither write_ptr, reservation_ptr nor
\* ongoing_writes, and returns without invoking a callback.
C15_ReadCompleteNoOp ==
  [][\A i \in RIdx :
       /\ (mrrb_read_complete_call(i) /\ readers[i].status # ACTIVE) =>
            /\ readers' = readers
            /\ UNCHANGED <<write_ptr, reservation_ptr, ongoing_writes, buffer>>
            /\ cl'[i].len = 0
       /\ (mrrb_read_complete_unlock(i) /\ cl[i].len = 0) =>
            /\ UNCHANGED <<readers, write_ptr, reservation_ptr, ongoing_writes, buffer>>
            /\ UNCHANGED <<notified, aborted>>
            /\ cl'[i].pc = "idle"]_vars

\* mrrb_read_complete has been called on an ABORTED reader and is about to
\* return.
C15_Witness ==
  \E i \in RIdx :
    /\ cl[i].pc = "rc_locked"
    /\ cl[i].len = 0
    /\ readers[i].status = ABORTED

\* The MRRB object: everything but the mutex, the threads' positions and the
\* bookkeeping of the streams.
Shared == <<num_readers, overrun_policy, abort_data, readers, write_ptr,
            reservation_ptr, ongoing_writes, buffer>>

Callbacks == <<notified, aborted, got, intact>>

\* C16: a zero-length write returns 0 and leaves the cursors, ongoing_writes
\* and every reader unchanged, takes no lock and invokes no callback, in every
\* state it is called in; the return to the caller changes nothing either.
C16_ZeroWrite ==
  [][/\ mrrb_write_zero(1) =>
          /\ wr'[1].pc = "return_zero"
          /\ UNCHANGED <<Shared, mutex, Callbacks>>
     /\ wr[1].pc = "return_zero" =>
          (wr'[1] # wr[1] => /\ wr'[1].pc = "idle"
                             /\ UNCHANGED <<Shared, mutex, Callbacks>>)]_vars

\* A zero-length write returns while the reader holds a completed slice and
\* would be notified again by a write that went through the reservation.
C16_Witness ==
  /\ wr[1].pc = "return_zero"
  /\ \E i \in RIdx : readers[i].status = IDLE /\ readers[i].read_complete_ptr # write_ptr


\* mrrb_write w fails with -1 after its reservation: at the unlock that
\* follows the reservation or at the second lock.
FailsReserved(w) == mrrb_write_unlock_fail(w) \/ mrrb_write_relock_fail(w)

\* C17: an operation whose port lock or unlock call fails reports the failure
\* and leaves reservation_ptr, write_ptr, ongoing_writes and every reader as
\* they were before the call.  For a failure at the first lock of any
\* operation the object is unchanged by the step; for a failure of mrrb_write
\* after the reservation, reservation_ptr is back at the offset the call
\* found it at (its write_pointer) and ongoing_writes no longer counts the
\* call.
C17_LockFailure ==
  [][/\ mrrb_write_lock_fail(1) => wr'[1].pc = "return_lock" /\ UNCHANGED Shared
     /\ \A i \in RIdx :
          /\ mrrb_read_complete_lock_fail(i) => cl'[i].pc = "rc_return" /\ UNCHANGED Shared
          /\ mrrb_abort_complete_lock_fail(i) => cl'[i].pc = "ac_return" /\ UNCHANGED Shared
          /\ mrrb_reader_enable_lock_fail(i) => cl'[i].pc = "en_return" /\ UNCHANGED Shared
          /\ mrrb_reader_disable_lock_fail(i) => cl'[i].pc = "dis_return" /\ UNCHANGED Shared
     /\ FailsReserved(1) =>
          /\ wr'[1].pc \in {"return_unlock", "return_relock"}
          /\ UNCHANGED <<readers, write_ptr>>
          /\ reservation_ptr' = wr[1].write_pointer
          /\ ongoing_writes' = ongoing_writes - 1]_vars

\* C18: in a build that disallows writes from interrupt context, mrrb_write
\* called while port_interrupt_active() returns 0 and changes no cursor,
\* counter or reader field, takes no lock and invokes no callback; the
\* return to the caller changes nothing either.
C18_WriteFromISR ==
  [][/\ mrrb_write_isr(1) =>
          /\ wr'[1].pc = "return_isr"
          /\ UNCHANGED <<Shared, mutex, Callbacks>>
     /\ wr[1].pc = "return_isr" =>
          (wr'[1] # wr[1] => /\ wr'[1].pc = "idle"
                             /\ UNCHANGED <<Shared, mutex, Callbacks>>)]_vars

\* A write from interrupt context returns while the reader's thread holds the
\* lock inside a completion and the buffer has room left.
C18_Witness ==
  /\ wr[1].pc = "return_isr"
  /\ mutex = ClientId(1)
  /\ cl[1].pc = "rc_locked"
  /\ mrrb_get_remaining_space(reservation_ptr, readers) > 0


\* C19: mrrb_reader_enable on a DISABLED reader leaves it IDLE and empty at
\* the current reservation_ptr, and every slice a reader that was enabled
\* again is notified of holds only bytes reserved by writes that started
\* after that enable, also when a write was in flight at the enable.
C19_ReEnable ==
  [][\A i \in RIdx :
       /\ (mrrb_reader_enable_lock(i) /\ readers[i].status = DISABLED) =>
            readers'[i] = [status |-> IDLE, read_ptr |-> reservation_ptr,
                           read_complete_ptr |-> reservation_ptr, is_full |-> FALSE]
       /\ \A ptr \in Offsets : \A len \in 0..N :
            (Notifies(i, ptr, len) /\ ~stayed[i] /\ ~IsDisabled(readers[i])) =>
              \A c \in Offsets :
                (ptr <= c /\ c < ptr + len) => Reserved(c) > enabled_at[i]]_vars


\* What a call of mrrb_reader_disable does to reader i, step by step: under
\* the lock an enabled reader becomes DISABLING if it has an abort callback
\* and DISABLED if it has none, nothing else of it changes, and a reader that
\* is already DISABLED or DISABLING is left alone; after the unlock the abort
\* callback is invoked once exactly when the reader was set DISABLING, and
\* the call returns.
DisableCall(i) ==
  /\ mrrb_reader_disable_lock(i) =>
       /\ readers'[i] =
            IF IsDisabled(readers[i]) THEN readers[i]
            ELSE [readers[i] EXCEPT !.status = IF abort_data[i] THEN DISABLING ELSE DISABLED]
       /\ \A j \in RIdx \ {i} : readers'[j] = readers[j]
       /\ UNCHANGED <<write_ptr, reservation_ptr, ongoing_writes, notified, aborted>>
       /\ (cl'[i].len > 0) = (~IsDisabled(readers[i]) /\ abort_data[i])
  /\ mrrb_reader_disable_unlock(i) =>
       /\ mutex' = 0
       /\ UNCHANGED <<readers, notified, aborted>>
       /\ cl'[i].pc = IF cl[i].len > 0 THEN "dis_abort" ELSE "idle"
  /\ mrrb_reader_disable_abort(i) =>
       /\ mutex # ClientId(i)
       /\ aborted'[i]
       /\ UNCHANGED readers
       /\ cl'[i].pc = "idle"

C21_DisableIdle ==
  [][\A i \in RIdx :
       (mrrb_reader_disable_lock(i) /\ readers[i].status = IDLE) =>
         /\ readers'[i].status = DISABLED
         /\ cl'[i].len = 0]_vars


\* C22: a DISABLED or DISABLING reader contributes N to the remaining and to
\* the overwritable space whatever its cursors and is_full are, a reservation
\* leaves it as it is (is_full included), and a publish neither changes it nor
\* marks it for notification.
C22_DisabledImposeNothing ==
  [][\A i \in RIdx : IsDisabled(readers[i]) =>
       /\ \A rp \in Offsets : \A rcp \in Offsets : \A full \in BOOLEAN :
            LET reader == [status |-> readers[i].status, read_ptr |-> rp,
                           read_complete_ptr |-> rcp, is_full |-> full]
            IN /\ _mrrb_reader_get_remaining_space(reservation_ptr, reader) = N
               /\ _mrrb_reader_get_overwritable_space(reservation_ptr, reader,
                                                      overrun_policy[i]) = N
       /\ \A w \in Writers :
            /\ (\E n \in 1..MaxDataLength : Reserves(w, n)) =>
                 readers'[i] = readers[i] /\ i \notin wr'[w].flags
            /\ mrrb_write_publish(w) =>
                 readers'[i] = readers[i] /\ i \notin wr'[w].flags]_vars

\* A write of N bytes was published while the reader was DISABLED with its
\* is_full set and a slice outstanding.
C22_Witness ==
  /\ wr[1].pc = "published"
  /\ wr[1].write_length = N
  /\ ongoing_writes = 0
  /\ readers[1].status = DISABLED
  /\ readers[1].is_full
  /\ readers[1].read_ptr # readers[1].read_complete_ptr


\* C23: write_ptr is changed only by the mrrb_write that, holding the lock,
\* decrements ongoing_writes to 0, and that step sets it to reservation_ptr;
\* so write_ptr = reservation_ptr whenever ongoing_writes = 0, and write_ptr
\* keeps its value over every step that leaves a write in flight.
C23_DeferredPublish ==
  [][/\ ongoing_writes = 0 => write_ptr = reservation_ptr
     /\ write_ptr' # write_ptr =>
          \E w \in Writers : mrrb_write_publish(w) /\ ongoing_writes = 1
     /\ \A w \in Writers :
          mrrb_write_publish(w) =>
            /\ mutex' = w
            /\ ongoing_writes' = ongoing_writes - 1
            /\ reservation_ptr' = reservation_ptr
            /\ write_ptr' = IF ongoing_writes' = 0 THEN reservation_ptr ELSE write_ptr
     /\ (ongoing_writes > 0 /\ ongoing_writes' > 0) => write_ptr' = write_ptr]_vars

\* One writer of a batch of two has gone through its publish step while the
\* other is still copying: write_ptr has stayed behind reservation_ptr at the
\* place the previous publish left it.
C23_Witness ==
  /\ wr[1].pc = "published"
  /\ wr[2].pc = "copy"
  /\ ongoing_writes = 1
  /\ published > 0
  /\ write_ptr # 0
  /\ write_ptr # reservation_ptr


\* C24: the publish step of the last writer of a batch makes every IDLE
\* reader ACTIVE at the write_ptr of before the publish and every ABORTED
\* reader ACTIVE where it is, leaves all other readers alone and marks exactly
\* the IDLE and ABORTED readers; the publish step of a writer that is not the
\* last changes no reader and marks none; after the unlock the writer invokes
\* notify once for each marked reader, in one step each, and for no other.
C24_OneNotifyPerPublish ==
  [][\A w \in Writers :
       /\ (mrrb_write_publish(w) /\ ongoing_writes = 1) =>
            /\ \A i \in RIdx :
                 readers'[i] =
                   IF readers[i].status = IDLE
                     THEN [readers[i] EXCEPT !.status = ACTIVE,
                                             !.read_complete_ptr = write_ptr]
                   ELSE IF readers[i].status = ABORTED
                     THEN [readers[i] EXCEPT !.status = ACTIVE]
                   ELSE readers[i]
            /\ wr'[w].flags = {i \in RIdx : readers[i].status \in {IDLE, ABORTED}}
       /\ (mrrb_write_publish(w) /\ ongoing_writes > 1) =>
            /\ readers' = readers
            /\ wr'[w].flags = {}
       /\ mrrb_write_unlock_publish(w) =>
            /\ UNCHANGED <<notified, got, intact>>
            /\ IF wr[w].flags = {} THEN wr'[w].pc = "idle"
               ELSE wr'[w].pc = "notify" /\ wr'[w].flags = wr[w].flags
       /\ mrrb_write_notify(w) =>
            \E i \in wr[w].flags :
              /\ notified'[i]
              /\ \A j \in RIdx \ {i} : notified'[j] = notified[j] /\ got'[j] = got[j]
              /\ IF wr[w].flags = {i} THEN wr'[w].pc = "idle"
                 ELSE wr'[w].pc = "notify" /\ wr'[w].flags = wr[w].flags \ {i}
       /\ (wr[w].pc \in {"publish", "published", "notify"} /\ wr'[w] # wr[w]
           /\ (notified' # notified \/ got' # got \/ intact' # intact)) =>
            mrrb_write_notify(w)]_vars

\* The last writer of a batch has published for a BLOCKING reader that was
\* IDLE and a SKIP reader that was ABORTED, has notified the first and is
\* about to notify the second.
C24_Witness ==
  /\ num_readers = 2
  /\ overrun_policy = <<BLOCKING, SKIP>>
  /\ \E w \in Writers : wr[w].pc = "notify" /\ wr[w].flags = {2}
  /\ notified[1]
  /\ readers[1].status = ACTIVE
  /\ readers[2].status = ACTIVE
  /\ readers[2].read_complete_ptr # readers[1].read_complete_ptr


\* C25: every slice passed to a notify callback has at least one byte, starts
\* at the reader's read_complete_ptr, ends at or before the end of the buffer,
\* and the reader's read_ptr is the offset that follows it.
C25_NotifySlice ==
  [][\A i \in RIdx : \A ptr \in Offsets : \A len \in 0..N :
       Notifies(i, ptr, len) =>
         /\ len >= 1
         /\ ptr = readers'[i].read_complete_ptr
         /\ ptr + len <= N
         /\ readers'[i].read_ptr = (ptr + len) % N]_vars


\* Bytes reader still holds: from its read_complete_ptr up to reservation_ptr.
Owes(reader) ==
  IF reader.is_full THEN N ELSE (reservation_ptr - reader.read_complete_ptr + N) % N

EnabledFull == \E i \in RIdx : ~IsDisabled(readers[i]) /\ readers[i].is_full

\* C26: in every state mrrb_is_full is true exactly when an enabled reader has
\* is_full set, which is exactly when mrrb_get_remaining_space is 0;
\* mrrb_is_empty is true exactly when mrrb_get_remaining_space is N; and the
\* remaining space is N minus what the slowest enabled reader still holds.
C26_SpaceQueries ==
  /\ mrrb_is_full(readers) = EnabledFull
  /\ EnabledFull = (mrrb_get_remaining_space(reservation_ptr, readers) = 0)
  /\ mrrb_is_empty(reservation_ptr, readers)
       = (mrrb_get_remaining_space(reservation_ptr, readers) = N)
  /\ \A f \in 0..N :
       (/\ \A i \in RIdx : ~IsDisabled(readers[i]) => Owes(readers[i]) <= f
        /\ \/ f = 0
           \/ \E i \in RIdx : ~IsDisabled(readers[i]) /\ Owes(readers[i]) = f)
       => mrrb_get_remaining_space(reservation_ptr, readers) = N - f


\* The writing threads have stopped calling mrrb_write.
WritersStopped == \A w \in Writers : wr[w].pc = "done"

AllDrained ==
  /\ ongoing_writes = 0
  /\ \A i \in RIdx : ~IsDisabled(readers[i]) => readers[i].status = IDLE
  /\ mrrb_is_empty(reservation_ptr, readers)

\* C27: when every callback is answered and no port call fails, then once the
\* writer has stopped calling mrrb_write the MRRB reaches a state with no
\* write in flight, every enabled reader IDLE and mrrb_is_empty true.
C27_DrainLiveness == WritersStopped ~> AllDrained


\* The writers have stopped while the SKIP reader was overrun on a full
\* buffer and has not yet answered its abort callback.
C27_Witness ==
  /\ WritersStopped
  /\ ~AllDrained
  /\ overrun_policy[1] = SKIP
  /\ readers[1].status = ABORTING
  /\ aborted[1]
  /\ published = MaxStream


\* C28: the stream positions passed to one reader grow strictly, within a
\* slice and from one slice to the next: as long as the slices of reader i
\* have continued the stream, got[i] is the last position it was passed, and
\* every byte of its next slice lies after it and after the byte before it.
C28_Ordering ==
  [][\A i \in RIdx : \A ptr \in Offsets : \A len \in 0..N :
       (Notifies(i, ptr, len) /\ intact[i]) =>
         /\ \A k \in 1..len : Slice(ptr, len)[k] > got[i]
         /\ \A k \in 1..len : \A l \in 1..len :
              k < l => Slice(ptr, len)[k] < Slice(ptr, len)[l]]_vars


\* The step is a reservation of some mrrb_write.
SomeReserve == \E w \in Writers : \E n \in 1..MaxDataLength : Reserves(w, n)

SomePublish == \E w \in Writers : mrrb_write_publish(w)

\* The changes of state of reader i that the reader state machine lists, each
\* with the operation that makes it.
Transition(i, from, to) ==
  \/ from = IDLE /\ to = ACTIVE /\ SomePublish
  \/ from = IDLE /\ to = DISABLED /\ mrrb_reader_disable_lock(i)
  \/ from = ACTIVE /\ to = IDLE /\ mrrb_read_complete_lock(i)
  \/ from = ACTIVE /\ to = ABORTING /\ SomeReserve /\ overrun_policy[i] = SKIP
  \/ /\ from = ACTIVE
     /\ to \in {DISABLING, DISABLED}
     /\ mrrb_reader_disable_lock(i) \/ (SomeReserve /\ overrun_policy[i] = DISABLE)
  \/ from = ABORTING /\ to \in {ACTIVE, ABORTED} /\ mrrb_abort_complete_lock(i)
  \/ from = ABORTED /\ to = ACTIVE /\ SomePublish
  \/ from = DISABLING /\ to = DISABLED /\ mrrb_abort_complete_lock(i)
  \/ from = DISABLED /\ to = IDLE /\ mrrb_reader_enable_lock(i)

\* C29: every change of a reader's state is one of the listed transitions:
\* IDLE->ACTIVE and ABORTED->ACTIVE by a publish, IDLE->DISABLED by
\* mrrb_reader_disable, ACTIVE->IDLE by mrrb_read_complete, ACTIVE->ABORTING
\* by a SKIP overrun, ACTIVE->DISABLING or DISABLED by mrrb_reader_disable or
\* a DISABLE overrun, ABORTING->ACTIVE or ABORTED and DISABLING->DISABLED by
\* mrrb_abort_complete, DISABLED->IDLE by mrrb_reader_enable.
C29_FsmClosure ==
  [][\A i \in RIdx :
       readers'[i].status # readers[i].status =>
         Transition(i, readers[i].status, readers'[i].status)]_vars


\* C30: with NumWriters writers and BLOCKING readers only, a writer that
\* calls mrrb_write with at most MaxCoopLength bytes after it has itself seen
\* a remaining space of NumWriters * MaxCoopLength is never truncated: the
\* reservation takes exactly the requested length.
C30_CooperativeWriters ==
  [][\A w \in Writers : \A n \in 1..MaxCoopLength :
       mrrb_write_reserve_from(w, n, "checked") =>
         /\ wr'[w].write_length = n
         /\ wr'[w].flags = {}]_vars

\* C31: a write of m bytes (1 <= m <= N) that starts at offset s while the
\* single enabled reader is IDLE is passed to the reader in one notify of m
\* bytes when s + m <= N, and otherwise in two: N - s bytes from s and, after
\* the reader's mrrb_read_complete, s + m - N bytes from the buffer start.
\* The mrrb_read_complete after the last of them leaves the reader IDLE and
\* the buffer empty.
C31_NotifyChunking ==
  [][/\ mrrb_write_notify(1) =>
          LET s == wr[1].write_pointer
              m == wr[1].write_length
          IN /\ 1 <= m /\ m <= N
             /\ accepted = got[1] + m
             /\ Notifies(1, s, Min(m, N - s))
             /\ intact'[1]
             /\ got'[1] = got[1] + Min(m, N - s)
             /\ (got'[1] = accepted) = (s + m <= N)
     /\ mrrb_read_complete_lock(1) =>
          IF got[1] = accepted
            THEN /\ readers'[1].status = IDLE
                 /\ cl'[1].len = 0
                 /\ mrrb_is_empty(reservation_ptr', readers')
            ELSE /\ readers'[1].status = ACTIVE
                 /\ readers'[1].read_complete_ptr = 0
                 /\ cl'[1].len = accepted - got[1]
                 /\ cl'[1].len = write_ptr
     /\ mrrb_read_complete_notify(1) =>
          /\ Notifies(1, 0, write_ptr)
          /\ intact'[1]
          /\ got'[1] = accepted]_vars

\* The second notify of a write that went over the buffer end is about to be
\* made.
C31_Witness ==
  /\ cl[1].pc = "rc_notify"
  /\ readers[1].read_complete_ptr = 0
  /\ cl[1].len = write_ptr
  /\ accepted > N

\* The bytes of the accepted stream that no notify has passed to the reader.
Unshown(i) == accepted - got[i]

\* C32: a slice is fixed when its notify is made: the writes that follow
\* while the notify is unanswered leave the reader's read_ptr and
\* read_complete_ptr alone.  Of a batch of writes that fit the buffer and are
\* made while the reader does not complete, the first notify covers the first
\* write up to the buffer end; every completion then shows the reader what is
\* left up to the buffer end, so a notify that starts at the buffer start
\* shows all that is left, and one that starts later shows all that is left
\* or ends at the buffer end: three completions drain the batch.
C32_FixedSlice ==
  [][/\ (notified[1] /\ wr[1].pc # "trigger" /\ wr'[1].pc # "trigger") =>
          /\ readers'[1].read_ptr = readers[1].read_ptr
          /\ readers'[1].read_complete_ptr = readers[1].read_complete_ptr
          /\ readers'[1].status = ACTIVE
          /\ got'[1] = got[1]
     /\ mrrb_write_notify(1) =>
          LET s == wr[1].write_pointer
              m == wr[1].write_length
          IN /\ Notifies(1, s, Min(m, N - s))
             /\ got'[1] = got[1] + Min(m, N - s)
             /\ intact'[1]
     /\ mrrb_read_complete_lock(1) =>
          /\ readers'[1].read_complete_ptr = readers[1].read_ptr
          /\ IF Unshown(1) = 0
               THEN /\ readers'[1].status = IDLE
                    /\ cl'[1].len = 0
                    /\ mrrb_is_empty(reservation_ptr', readers')
               ELSE /\ readers'[1].status = ACTIVE
                    /\ cl'[1].len = Min(Unshown(1), N - readers[1].read_ptr)
     /\ mrrb_read_complete_notify(1) =>
          /\ got'[1] = got[1] + cl[1].len
          /\ intact'[1]
          /\ readers[1].read_complete_ptr = 0 => Unshown(1)' = 0
          /\ readers[1].read_complete_ptr > 0 => Unshown(1)' = 0 \/ readers[1].read_ptr = 0]_vars

\* The second notify of a batch is about to be made and does not reach the
\* end of the batch: a third one will follow.
C32_Witness ==
  /\ wr[1].pc = "trigger"
  /\ cl[1].pc = "rc_notify"
  /\ readers[1].read_complete_ptr > 0
  /\ cl[1].len < Unshown(1)

\* A reader that was never overrun or disabled, with no callback unanswered
\* and no call in progress: what it owes is what was accepted and never
\* passed to it.
Settled(i) ==
  /\ overrun_policy[i] = BLOCKING
  /\ stayed[i]
  /\ ~notified[i]
  /\ cl[i].pc = "idle"

\* C33: whenever the lock is free, every reader that is not disabled has
\* is_full set only if read_complete_ptr = reservation_ptr, and it owes no
\* bytes exactly when read_complete_ptr = reservation_ptr and is_full is
\* clear; so a reader that owes nothing does not have is_full set.
C33_FullEmpty ==
  mutex = 0 =>
    \A i \in RIdx :
      ~IsDisabled(readers[i]) =>
        /\ readers[i].is_full => readers[i].read_complete_ptr = reservation_ptr
        /\ Settled(i) =>
             ((Unshown(i) = 0) =
                (readers[i].read_complete_ptr = reservation_ptr /\ ~readers[i].is_full))

\* The modular arc from read_complete_ptr to reservation_ptr, both ends
\* included: the whole buffer when the reader is full, the single offset when
\* the two are equal and the reader is not full.
OnArc(reader, ptr) ==
  \/ reader.is_full
  \/ (ptr - reader.read_complete_ptr + N) % N
       <= (reservation_ptr - reader.read_complete_ptr + N) % N

\* C34: whenever the lock is free, the read_ptr of every reader that is IDLE,
\* ACTIVE, ABORTING or ABORTED lies on the arc from its read_complete_ptr to
\* reservation_ptr.
C34_ReadPtrOnArc ==
  mutex = 0 =>
    \A i \in RIdx :
      readers[i].status \in {IDLE, ACTIVE, ABORTING, ABORTED} =>
        OnArc(readers[i], readers[i].read_ptr)

\* C35: overrun clearing leaves an IDLE reader as it is: its status,
\* read_ptr, read_complete_ptr and is_full come out of the clearing
\* unchanged, the reservation that follows keeps its status and pointers, and
\* its abort callback is not scheduled.  So an IDLE reader of the DISABLE
\* policy is not disabled and one of the SKIP policy is not aborted.
C35_IdleNotCleared ==
  [][\A w \in Writers : \A n \in 1..MaxDataLength :
       (Reserves(w, n) /\ Clears(n)) =>
         \A i \in RIdx :
           readers[i].status = IDLE =>
             /\ Cleared(n)[i] = readers[i]
             /\ readers'[i].status = IDLE
             /\ readers'[i].read_ptr = readers[i].read_ptr
             /\ readers'[i].read_complete_ptr = readers[i].read_complete_ptr
             /\ i \notin wr'[w].flags
             /\ aborted'[i] = aborted[i]
             /\ stayed'[i] = stayed[i]]_vars

\* Overrun clearing has run for a write that asked for more than the only
\* reader, IDLE and not BLOCKING, had room for.
C35_Witness ==
  \E w \in Writers :
    /\ num_readers = 1
    /\ wr[w].pc = "reserved"
    /\ wr[w].abort_readers
    /\ wr[w].remaining_space < Min(wr[w].data_length, N)
    /\ readers[1].status = IDLE
    /\ overrun_policy[1] # BLOCKING

\* A write between its reservation (Phase A) and its publish step (Phase C),
\* and the cells it has reserved.
InFlight(w) == wr[w].pc \in {"reserved", "abort", "copy", "publish"}

Cells(w) == {(wr[w].write_pointer + k) % N : k \in 0..(wr[w].write_length - 1)}

RECURSIVE Unpublished(_)
Unpublished(w) ==
  IF w = 0 THEN 0
  ELSE (IF InFlight(w) THEN wr[w].write_length ELSE 0) + Unpublished(w - 1)

\* C36: while a reader is enabled, the cells reserved by two writes that are
\* in flight at the same time are disjoint, and the writes in flight have
\* reserved at most N bytes together, whatever the policies and states of the
\* readers.
C36_DisjointReservations ==
  (\E i \in RIdx : ~IsDisabled(readers[i])) =>
    /\ \A v \in Writers : \A w \in Writers :
         (v # w /\ InFlight(v) /\ InFlight(w)) => Cells(v) \cap Cells(w) = {}
    /\ Unpublished(NumWriters) <= N

\* The step belongs to a call of mrrb_write by writer 1 that reserved no byte.
ZeroLengthStep ==
  /\ wr[1].pc \in {"reserved", "abort", "copy", "publish", "published", "notify"}
  /\ wr[1].write_length = 0
  /\ wr' # wr

\* C37: a write of n > 0 bytes that is truncated to 0 bytes (remaining and
\* overwritable space are both 0) has no effect: its reservation and every
\* later step of the call leave reservation_ptr, write_ptr and the status,
\* pointers and is_full of every reader as they were, and no callback is
\* invoked.
C37_TruncatedToZero ==
  [][/\ \A n \in 1..MaxDataLength :
          (Reserves(1, n) /\ wr'[1].write_length = 0) =>
            /\ wr'[1].remaining_space = 0
            /\ wr'[1].overwritable_space = 0
            /\ UNCHANGED <<readers, reservation_ptr, write_ptr>>
     /\ ZeroLengthStep =>
          UNCHANGED <<readers, reservation_ptr, write_ptr, notified, aborted>>]_vars

\* C38: whenever a notify callback is invoked for a reader, the reader is
\* ACTIVE and every earlier notify for it has been answered.  A BLOCKING
\* reader that was never disabled is never aborted, so its notifies are
\* answered by mrrb_read_complete alone: none is unanswered (notified) when
\* the next one is invoked.
C38_OneOutstandingNotify ==
  [][\A i \in RIdx : \A ptr \in Offsets : \A len \in 0..N :
       Notifies(i, ptr, len) =>
         /\ readers[i].status = ACTIVE
         /\ (overrun_policy[i] = BLOCKING /\ stayed[i]) => ~notified[i]]_vars

\* C39: whenever the lock is free, every IDLE reader has read_complete_ptr =
\* read_ptr = write_ptr, also a reader that mrrb_reader_enable made IDLE
\* while a write was in flight.
C39_IdleOnPublishCursor ==
  mutex = 0 =>
    \A i \in RIdx :
      readers[i].status = IDLE =>
        /\ readers[i].read_complete_ptr = readers[i].read_ptr
        /\ readers[i].read_complete_ptr = write_ptr

\* C40: mrrb_reader_enable on a reader that is IDLE, ACTIVE, ABORTING or
\* ABORTED changes nothing: under the lock the status, read_ptr,
\* read_complete_ptr and is_full of every reader and the buffer cursors are
\* kept, and the call unlocks and returns 0 without invoking a callback.
C40_EnableEnabled ==
  [][\A i \in RIdx :
       /\ (mrrb_reader_enable_lock(i) /\ ~IsDisabled(readers[i])) =>
            /\ cl'[i].pc = "en_locked"
            /\ UNCHANGED <<Shared, Callbacks, stayed>>
       /\ (mrrb_reader_enable_unlock(i) /\ ~IsDisabled(readers[i])) =>
            /\ cl'[i] = ClientIdle
            /\ UNCHANGED <<Shared, Callbacks, stayed>>]_vars

\* mrrb_reader_enable holds the lock for a reader that is ACTIVE and has
\* been shown bytes it has not completed.
C40_Witness ==
  /\ cl[1].pc = "en_locked"
  /\ readers[1].status = ACTIVE
  /\ notified[1]
  /\ readers[1].read_ptr # readers[1].read_complete_ptr

====
